---- MODULE Spec2Model ----
(***************************************************************************)
(* Model of src/main.py: the scraper that mirrors help-centre articles     *)
(* into a directory (Scraper), uploads the artifacts (OpenAIUploader       *)
(* upload stage) and attaches the uploaded objects to a vector store       *)
(* (OpenAIUploader attach stage), all three driven by the persisted        *)
(* document articles_metadata.json.                                        *)
(***************************************************************************)
EXTENDS Integers, Sequences, FiniteSets, TLC

VARIABLES
    metadata,   \* articles_metadata.json on disk: article id -> record
    files,      \* ids i for which the artifact <i>.md exists in the directory
    remote,     \* the help centre: article id -> its version markers
    index,      \* object ids attached to the vector store
    nextId,     \* next object id the upload service hands out
    now,        \* the last value datetime.now() gave to an attach timestamp
    pc,         \* position of main(): "idle", "upload" or "attach"
    calls,      \* calls made by the current (or last) program invocation
    run,        \* runs of main() completed, how the one before went, and
                \* what was attached when the current one started
    document,   \* what articles_metadata.json is: "ok" (a JSON object, read
                \* as metadata), "missing", "unparseable" (it cannot be read
                \* or is not JSON) or "not_a_mapping" (JSON, but no object)
    workers     \* the listing calls submitted to the thread pool of the
                \* scraper that have not returned yet

vars == <<metadata, files, remote, index, nextId, now, pc, calls, run, document,
          workers>>

----------------------------------------------------------------------------
(* Bounds of the model *)

MaxStamp == 2       \* remote timestamps are 1..MaxStamp (None is 0)
MaxClock == 3       \* attach timestamps are 1..MaxClock
MaxUploads == 2     \* objects the upload service creates in one behaviour
MaxRuns == 2        \* runs of main() in one behaviour

(* Values *)

None == 0           \* Python None, and what dict.get returns for an absent key
Missing == -1       \* an absent key, for the fields the compatibility pass fills
StoreId == 1        \* self.store.id, the id of the vector store

Items == {1, 2}
Stamps == 0..MaxStamp

----------------------------------------------------------------------------
(* The remote corpus: categories -> sections -> articles *)

CATEGORY_IDS == <<1, 2>>

RemoteSections(category_id) == IF category_id = 1 THEN <<1>> ELSE <<2>>

\* article 1 is listed by both sections
RemoteArticleIds(section_id) == IF section_id = 1 THEN <<1, 2>> ELSE <<1>>

Article(id) ==
    [id |-> id, edited_at |-> remote[id].edited_at, updated_at |-> remote[id].updated_at]

----------------------------------------------------------------------------
(* Helpers *)

Truthy(x) == x # None /\ x # Missing

RECURSIVE SortedSeq(_)
SortedSeq(S) ==
    IF S = {} THEN <<>>
    ELSE LET m == CHOOSE x \in S : \A y \in S : x <= y
         IN  <<m>> \o SortedSeq(S \ {m})

RECURSIVE Concat(_)
Concat(ss) == IF ss = <<>> THEN <<>> ELSE Head(ss) \o Concat(Tail(ss))

\* the answer the remote gives to the call for article i, when it is asked
At(outcome, i, unasked) == IF i \in DOMAIN outcome THEN outcome[i] ELSE unasked

Call(op, id, fid, res) == [op |-> op, id |-> id, fid |-> fid, res |-> res]

CallsOf(log, op) == SelectSeq(log, LAMBDA c : c.op = op)

\* metadata.get(article_id, {}) read with the defaults the code gives to .get
DefaultRecord ==
    [edited_at |-> None, updated_at |-> None,
     openai_upload_status |-> "pending", openai_file_id |-> None,
     last_uploaded_updated_at |-> None, upload_error |-> None,
     skip_vector_store |-> FALSE,
     vector_store_attachment_status |-> "missing",
     vector_store_attached_at |-> Missing, vector_store_id |-> Missing]

Get(md, id) == IF id \in DOMAIN md THEN md[id] ELSE DefaultRecord

Put(md, id, rec) == [k \in DOMAIN md \cup {id} |-> IF k = id THEN rec ELSE md[k]]

----------------------------------------------------------------------------
(* State Store *)

\* OpenAIUploader.ensure_metadata_compatibility
EnsureMetadataCompatibility(md) ==
    [id \in DOMAIN md |->
        [md[id] EXCEPT
            !.vector_store_attachment_status =
                IF @ = "missing" THEN "pending" ELSE @,
            !.vector_store_attached_at = IF @ = Missing THEN None ELSE @,
            !.vector_store_id = IF @ = Missing THEN None ELSE @]]

\* Scraper.load_articles_metadata: the class body defines it twice and the
\* second definition (no compatibility pass) is the one bound to the name
ScraperLoadArticlesMetadata(md) == md

\* OpenAIUploader.load_articles_metadata
UploaderLoadArticlesMetadata(md) == EnsureMetadataCompatibility(md)

----------------------------------------------------------------------------
(* Fetch stage: Scraper *)

\* a scraper that rewrites every article it is given
ShouldUpdateAlways(existing_edited_at, current_edited_at) == TRUE

\* save_article_as_markdown: should_update
ShouldUpdate(existing_edited_at, current_edited_at) ==
    existing_edited_at # current_edited_at

\* a scraper that stores no edited_at with the record it writes
NewRecordWithoutEditedAt(article) ==
    [edited_at |-> None, updated_at |-> article.updated_at,
     openai_upload_status |-> "pending", openai_file_id |-> None,
     last_uploaded_updated_at |-> None, upload_error |-> None,
     skip_vector_store |-> FALSE,
     vector_store_attachment_status |-> "pending",
     vector_store_attached_at |-> None, vector_store_id |-> Missing]

\* the record save_article_as_markdown stores for a written article; the keys
\* openai_file_id, last_uploaded_updated_at, upload_error and vector_store_id
\* are not part of it
NewRecord(article) ==
    [edited_at |-> article.edited_at, updated_at |-> article.updated_at,
     openai_upload_status |-> "pending", openai_file_id |-> None,
     last_uploaded_updated_at |-> None, upload_error |-> None,
     skip_vector_store |-> FALSE,
     vector_store_attachment_status |-> "pending",
     vector_store_attached_at |-> None, vector_store_id |-> Missing]

\* st = [md, fs, log]: the store document, the artifacts, the calls so far
SaveArticleAsMarkdown(st, article) ==
    LET all_metadata == ScraperLoadArticlesMetadata(st.md)
        existing_article == Get(all_metadata, article.id)
    IN  IF ~ShouldUpdate(existing_article.edited_at, article.edited_at)
        THEN st
        ELSE [md  |-> Put(all_metadata, article.id, NewRecord(article)),
              fs  |-> st.fs \cup {article.id},
              log |-> Append(st.log, Call("write", article.id, None, "ok"))]

RECURSIVE SaveArticles(_, _)
SaveArticles(st, articles) ==
    IF articles = <<>> THEN st
    ELSE SaveArticles(SaveArticleAsMarkdown(st, Head(articles)), Tail(articles))

\* get_sections_from_category / get_articles_from_section: a failed listing
\* call yields the empty list
GetSectionsFromCategory(category_id, ok) ==
    IF ok THEN RemoteSections(category_id) ELSE <<>>

GetArticlesFromSection(section_id, ok) ==
    IF ok THEN [k \in 1..Len(RemoteArticleIds(section_id)) |->
                    Article(RemoteArticleIds(section_id)[k])]
    ELSE <<>>

\* the listing calls that failed
ListingCalls(op, ids, ok) ==
    SelectSeq([k \in 1..Len(ids) |-> Call(op, ids[k], None, "err")],
              LAMBDA c : ~ok[c.id])

\* an enumeration that gives up when the listing of one category fails
GetSectionsFromCategoriesAborting(category_ids, catOk) ==
    IF \E k \in 1..Len(category_ids) : ~catOk[category_ids[k]] THEN <<>>
    ELSE Concat([k \in 1..Len(category_ids) |->
                    RemoteSections(category_ids[k])])

\* results are collected in the order of category_ids
GetSectionsFromCategoriesConcurrent(category_ids, catOk) ==
    Concat([k \in 1..Len(category_ids) |->
                GetSectionsFromCategory(category_ids[k], catOk[category_ids[k]])])

\* articles are collected, and saved, in the order of sections
GetArticlesFromSectionsConcurrent(st, sections, secOk) ==
    SaveArticles(
        [st EXCEPT !.log = @ \o ListingCalls("list_section", sections, secOk)],
        Concat([k \in 1..Len(sections) |->
                    GetArticlesFromSection(sections[k], secOk[sections[k]])]))

\* Scraper.run
ScraperRun(st, catOk, secOk) ==
    LET all_sections == GetSectionsFromCategoriesConcurrent(CATEGORY_IDS, catOk)
    IN  GetArticlesFromSectionsConcurrent(
            [st EXCEPT !.log = @ \o ListingCalls("list_category", CATEGORY_IDS, catOk)],
            all_sections, secOk)

----------------------------------------------------------------------------
(* Upload stage: OpenAIUploader *)

\* upload_markdown_files_batch: should_upload for one artifact's record
\* an upload stage that leaves a record whose upload failed as it is
ShouldUploadNoRetry(article_data) ==
    \/ article_data.openai_upload_status = "pending"
    \/ /\ article_data.openai_upload_status = "uploaded"
       /\ Truthy(article_data.updated_at)
       /\ article_data.updated_at # article_data.last_uploaded_updated_at

ShouldUpload(article_data) ==
    LET upload_status == article_data.openai_upload_status
        current_updated_at == article_data.updated_at
        last_uploaded_version == article_data.last_uploaded_updated_at
    IN  \/ upload_status = "pending"
        \/ upload_status = "failed"
        \/ /\ upload_status = "uploaded"
           /\ \/ /\ Truthy(current_updated_at) /\ Truthy(last_uploaded_version)
                 /\ current_updated_at # last_uploaded_version
              \/ Truthy(current_updated_at) /\ ~Truthy(last_uploaded_version)

\* an uploader that marks the record as not attached when it is uploaded anew
UpdateUploadStatusResettingAttach(md, article_id, status, openai_file_id, error) ==
    LET loaded == UploaderLoadArticlesMetadata(md)
        rec == loaded[article_id]
    IN  IF article_id \in DOMAIN loaded
        THEN Put(loaded, article_id,
                 [rec EXCEPT
                    !.openai_upload_status = status,
                    !.openai_file_id = IF Truthy(openai_file_id)
                                       THEN openai_file_id ELSE @,
                    !.last_uploaded_updated_at =
                        IF Truthy(openai_file_id) /\ Truthy(rec.updated_at)
                        THEN rec.updated_at ELSE @,
                    !.upload_error = error,
                    !.vector_store_attachment_status =
                        IF Truthy(openai_file_id) THEN "pending" ELSE @])
        ELSE md

\* an uploader that forgets the object id of a record whose upload failed
UpdateUploadStatusDroppingFile(md, article_id, status, openai_file_id, error) ==
    LET loaded == UploaderLoadArticlesMetadata(md)
        rec == loaded[article_id]
    IN  IF article_id \in DOMAIN loaded
        THEN Put(loaded, article_id,
                 [rec EXCEPT
                    !.openai_upload_status = status,
                    !.openai_file_id = openai_file_id,
                    !.last_uploaded_updated_at =
                        IF Truthy(openai_file_id) /\ Truthy(rec.updated_at)
                        THEN rec.updated_at ELSE @,
                    !.upload_error = error])
        ELSE md

\* an uploader that records the object id but never the uploaded version
UpdateUploadStatusNoVersion(md, article_id, status, openai_file_id, error) ==
    LET loaded == UploaderLoadArticlesMetadata(md)
        rec == loaded[article_id]
    IN  IF article_id \in DOMAIN loaded
        THEN Put(loaded, article_id,
                 [rec EXCEPT
                    !.openai_upload_status = status,
                    !.openai_file_id = IF Truthy(openai_file_id)
                                       THEN openai_file_id ELSE @,
                    !.upload_error = error])
        ELSE md

\* OpenAIUploader.update_upload_status: load, change one record, save; a
\* document without the record is not written
UpdateUploadStatus(md, article_id, status, openai_file_id, error) ==
    LET loaded == UploaderLoadArticlesMetadata(md)
        rec == loaded[article_id]
        withStatus == [rec EXCEPT !.openai_upload_status = status]
        withFile ==
            IF Truthy(openai_file_id)
            THEN [withStatus EXCEPT
                    !.openai_file_id = openai_file_id,
                    !.last_uploaded_updated_at =
                        IF Truthy(rec.updated_at) THEN rec.updated_at ELSE @]
            ELSE withStatus
        withError == [withFile EXCEPT !.upload_error = error]
    IN  IF article_id \in DOMAIN loaded
        THEN Put(loaded, article_id, withError)
        ELSE md

\* one pass of the loop of upload_files_batch; st = [md, next, log]
UploadOneFile(st, article_id, ok) ==
    IF ok
    THEN [md   |-> UpdateUploadStatus(st.md, article_id, "uploaded", st.next, None),
          next |-> st.next + 1,
          log  |-> Append(st.log, Call("upload", article_id, st.next, "ok"))]
    ELSE [md   |-> UpdateUploadStatus(st.md, article_id, "failed", None, 1),
          next |-> st.next,
          log  |-> Append(st.log, Call("upload", article_id, None, "err"))]

\* a batch that stops at the first upload that fails
RECURSIVE UploadFilesBatchHalting(_, _, _)
UploadFilesBatchHalting(st, file_paths, upOk) ==
    IF file_paths = <<>> THEN st
    ELSE IF ~upOk[Head(file_paths)]
         THEN UploadOneFile(st, Head(file_paths), FALSE)
         ELSE UploadFilesBatchHalting(UploadOneFile(st, Head(file_paths), TRUE),
                                      Tail(file_paths), upOk)

RECURSIVE UploadFilesBatch(_, _, _)
UploadFilesBatch(st, file_paths, upOk) ==
    IF file_paths = <<>> THEN st
    ELSE UploadFilesBatch(UploadOneFile(st, Head(file_paths), upOk[Head(file_paths)]),
                          Tail(file_paths), upOk)

\* get_markdown_file_paths: the artifacts of the directory
GetMarkdownFilePaths(fs) == SortedSeq(fs)

\* the first loop of upload_markdown_files_batch: files_to_upload
FilesToUpload(md, fs) ==
    LET loaded == UploaderLoadArticlesMetadata(md)
    IN  SelectSeq(GetMarkdownFilePaths(fs), LAMBDA id : ShouldUpload(Get(loaded, id)))

UploadMarkdownFilesBatch(st, fs, upOk) ==
    UploadFilesBatch(st, FilesToUpload(st.md, fs), upOk)

\* a selection by ids that does not look for the artifact
NeedsUploadByIdNoFileCheck(md, fs, article_id, force_reupload) ==
    /\ article_id \in DOMAIN md
    /\ \/ force_reupload
       \/ ~ /\ md[article_id].openai_upload_status = "uploaded"
            /\ md[article_id].updated_at = md[article_id].last_uploaded_updated_at

\* upload_articles_by_ids_batch: which of article_ids get uploaded
NeedsUploadById(md, fs, article_id, force_reupload) ==
    /\ article_id \in DOMAIN md
    /\ article_id \in fs
    /\ \/ force_reupload
       \/ ~ /\ md[article_id].openai_upload_status = "uploaded"
            /\ md[article_id].updated_at = md[article_id].last_uploaded_updated_at

\* the first loop of upload_articles_by_ids_batch: file_paths
FilePathsByIds(md, fs, article_ids, force_reupload) ==
    LET loaded == UploaderLoadArticlesMetadata(md)
    IN  SelectSeq(article_ids,
                  LAMBDA id : NeedsUploadById(loaded, fs, id, force_reupload))

UploadArticlesByIdsBatch(st, fs, article_ids, force_reupload, upOk) ==
    UploadFilesBatch(st, FilePathsByIds(st.md, fs, article_ids, force_reupload), upOk)

----------------------------------------------------------------------------
(* Attach stage: OpenAIUploader *)

\* create_and_check_vector_store: the store, or None when the lookup fails
CreateAndCheckVectorStore(storeOk) == IF storeOk THEN StoreId ELSE None

\* attach_uploaded_files_to_vector_store: needs_file_update
NeedsFileUpdate(article_data) ==
    /\ Truthy(article_data.updated_at)
    /\ Truthy(article_data.last_uploaded_updated_at)
    /\ article_data.updated_at # article_data.last_uploaded_updated_at

\* an attach stage that does not look at skip_vector_store
AttachClassIgnoringSkip(article_data) ==
    IF /\ article_data.openai_upload_status = "uploaded"
       /\ Truthy(article_data.openai_file_id)
    THEN IF NeedsFileUpdate(article_data) THEN "files_needing_update"
         ELSE IF article_data.vector_store_attachment_status = "attached"
              THEN "already_attached"
              ELSE "uploaded_files"
    ELSE "not_uploaded"

\* an attach stage that leaves a record whose attach failed as it is
AttachClassNoRetry(article_data) ==
    IF article_data.skip_vector_store THEN "skipped"
    ELSE IF /\ article_data.openai_upload_status = "uploaded"
            /\ Truthy(article_data.openai_file_id)
         THEN IF NeedsFileUpdate(article_data) THEN "files_needing_update"
              ELSE IF article_data.vector_store_attachment_status
                        \in {"attached", "failed"}
                   THEN "already_attached"
                   ELSE "uploaded_files"
         ELSE "not_uploaded"

\* the list a record is put on by the first loop of the attach stage
AttachClass(article_data) ==
    IF article_data.skip_vector_store THEN "skipped"
    ELSE IF /\ article_data.openai_upload_status = "uploaded"
            /\ Truthy(article_data.openai_file_id)
         THEN IF NeedsFileUpdate(article_data) THEN "files_needing_update"
              ELSE IF article_data.vector_store_attachment_status = "attached"
                   THEN "already_attached"
                   ELSE "uploaded_files"
         ELSE "not_uploaded"

\* self.upload_article_by_id(...) on an OpenAIUploader: the class defines no
\* method of that name (upload_article_by_id is a method of Scraper), so the
\* call raises AttributeError before anything is uploaded
UploaderUploadArticleById(st, article_id, ok) ==
    [raised |-> TRUE, status |-> "none", openai_file_id |-> None, st |-> st]

\* an attach that records the status and the time, and not the vector store
AttachedWithoutStoreId(rec, t) ==
    [rec EXCEPT !.vector_store_attachment_status = "attached",
                !.vector_store_attached_at = t]

Attached(rec, t) ==
    [rec EXCEPT !.vector_store_attachment_status = "attached",
                !.vector_store_attached_at = t,
                !.vector_store_id = StoreId]

\* one pass of the loop over files_needing_update;
\* st = [md, mem, idx, next, log]: the document on disk, the stage's in-memory
\* copy of it, the vector store, the upload service's next id, the calls
SupersedeOne(st, article_id, detOk, upOk, attOut, t) ==
    LET old_file_id == st.mem[article_id].openai_file_id
        s1 == IF st.mem[article_id].vector_store_attachment_status = "attached"
              THEN [st EXCEPT
                      !.idx = IF detOk THEN @ \ {old_file_id} ELSE @,
                      !.log = Append(@, Call("detach", article_id, old_file_id,
                                             IF detOk THEN "ok" ELSE "err"))]
              ELSE st
        up == UploaderUploadArticleById(s1, article_id, upOk)
        s2 == up.st
        failed == Call("files_update_failed", article_id, None, "err")
    IN  IF up.raised THEN [s1 EXCEPT !.log = Append(@, failed)]
        ELSE IF up.status = "success"
        THEN IF attOut = "ok"
             THEN [s2 EXCEPT
                     !.idx = @ \cup {up.openai_file_id},
                     !.mem = Put(@, article_id, Attached(@[article_id], t)),
                     !.log = Append(@, Call("attach", article_id,
                                            up.openai_file_id, "ok"))]
             ELSE [s2 EXCEPT
                     !.mem = Put(@, article_id,
                                 [@[article_id] EXCEPT
                                    !.vector_store_attachment_status = "failed"]),
                     !.log = Append(Append(@, Call("attach", article_id,
                                                   up.openai_file_id, attOut)),
                                    failed)]
        ELSE [s2 EXCEPT !.log = Append(@, failed)]

RECURSIVE SupersedeAll(_, _, _, _, _, _)
SupersedeAll(st, ids, detOk, upOk, attOut, t) ==
    IF ids = <<>> THEN st
    ELSE SupersedeAll(
            SupersedeOne(st, Head(ids), At(detOk, Head(ids), TRUE),
                         At(upOk, Head(ids), TRUE), At(attOut, Head(ids), "ok"), t),
            Tail(ids), detOk, upOk, attOut, t)

\* a loop that records every refused attach call as failed, the answer
\* "already attached" too
AttachOneDupFails(st, article_id, attOut, t) ==
    LET file_id == st.mem[article_id].openai_file_id
        rec == st.mem[article_id]
        call == Call("attach", article_id, file_id, attOut)
    IN  IF attOut = "ok"
        THEN [st EXCEPT !.idx = @ \cup {file_id},
                        !.mem = Put(@, article_id, Attached(rec, t)),
                        !.log = Append(@, call)]
        ELSE [st EXCEPT
                !.mem = Put(@, article_id,
                            [rec EXCEPT !.vector_store_attachment_status = "failed"]),
                !.log = Append(@, call)]

\* one pass of the loop over uploaded_files
AttachOne(st, article_id, attOut, t) ==
    LET file_id == st.mem[article_id].openai_file_id
        rec == st.mem[article_id]
        call == Call("attach", article_id, file_id, attOut)
    IN  IF attOut = "ok"
        THEN [st EXCEPT !.idx = @ \cup {file_id},
                        !.mem = Put(@, article_id, Attached(rec, t)),
                        !.log = Append(@, call)]
        ELSE IF attOut = "dup"
        THEN [st EXCEPT
                !.mem = Put(@, article_id,
                            Attached(rec, IF ~Truthy(rec.vector_store_attached_at)
                                          THEN t ELSE rec.vector_store_attached_at)),
                !.log = Append(@, call)]
        ELSE [st EXCEPT
                !.mem = Put(@, article_id,
                            [rec EXCEPT !.vector_store_attachment_status = "failed"]),
                !.log = Append(@, call)]

RECURSIVE AttachAll(_, _, _, _)
AttachAll(st, ids, attOut, t) ==
    IF ids = <<>> THEN st
    ELSE AttachAll(AttachOne(st, Head(ids), attOut[Head(ids)], t),
                   Tail(ids), attOut, t)

\* the records the first loop of the attach stage puts on the list `class`
Classified(loaded, class) ==
    SelectSeq(SortedSeq(DOMAIN loaded), LAMBDA id : AttachClass(loaded[id]) = class)

AttachUploadedFilesToVectorStore(st, store, detOk, upOk, attOut, t) ==
    LET loaded == UploaderLoadArticlesMetadata(st.md)
        files_needing_update == Classified(loaded, "files_needing_update")
        uploaded_files == Classified(loaded, "uploaded_files")
        s1 == SupersedeAll([st EXCEPT !.mem = loaded], files_needing_update,
                           detOk, upOk, attOut, t)
        s2 == AttachAll(s1, uploaded_files, attOut, t)
    IN  IF store = None \/ DOMAIN loaded = {} THEN st
        ELSE IF uploaded_files = <<>> /\ files_needing_update = <<>> THEN s1
        ELSE [s2 EXCEPT !.md = s2.mem]

----------------------------------------------------------------------------
(* Initial states: the store document main() finds on disk *)

\* records an earlier run, an earlier format of the document or an operator's
\* edit can have left for article i; its earlier object id is i
StoredRecords(i) ==
    { r \in [edited_at : {1}, updated_at : {1, 2},
             openai_upload_status : {"pending", "uploaded", "failed"},
             openai_file_id : {None, i},
             last_uploaded_updated_at : {None, 1},
             upload_error : {None, 1},
             skip_vector_store : BOOLEAN,
             vector_store_attachment_status :
                {"missing", "pending", "attached", "failed"},
             vector_store_attached_at : {Missing, None, 1},
             vector_store_id : {Missing, None, StoreId}] :
        /\ (r.upload_error = 1) <=> (r.openai_upload_status = "failed")
        /\ r.openai_upload_status = "pending" => r.openai_file_id = None
        /\ r.openai_upload_status = "uploaded" => r.openai_file_id = i
        /\ r.openai_file_id = None =>
              /\ r.last_uploaded_updated_at = None
              /\ r.updated_at = 1
              /\ r.vector_store_attachment_status \in {"missing", "pending"}
        /\ r.last_uploaded_updated_at = None => r.updated_at = 1
        /\ r.vector_store_attachment_status = "attached" =>
              r.openai_upload_status = "uploaded"
        /\ r.vector_store_attached_at =
              (IF r.vector_store_attachment_status = "missing" THEN Missing
               ELSE IF r.vector_store_attachment_status = "attached" THEN 1
               ELSE None)
        /\ r.vector_store_id =
              (IF r.vector_store_attachment_status = "missing" THEN Missing
               ELSE IF r.vector_store_attachment_status = "attached" THEN StoreId
               ELSE None) }

\* the articles that were mirrored before the first state of a behaviour
StoredItems == {1}

InitialStores ==
    { md \in UNION { [S -> UNION { StoredRecords(i) : i \in StoredItems }] :
                        S \in SUBSET StoredItems } :
        \A i \in DOMAIN md : md[i] \in StoredRecords(i) }

AttachedObjects(md) ==
    { md[i].openai_file_id : i \in { j \in DOMAIN md :
        /\ md[j].vector_store_attachment_status = "attached"
        /\ Truthy(md[j].openai_file_id) } }

Versions == [edited_at : Stamps, updated_at : Stamps]

InitCommon ==
    /\ metadata \in InitialStores
    /\ files = DOMAIN metadata
    /\ index = AttachedObjects(metadata)
    /\ nextId = Cardinality(Items) + 1
    /\ now = 1
    /\ pc = "idle"
    /\ calls = <<>>
    /\ run = [n |-> 0, prev |-> "none", old |-> <<>>]
    /\ document = "ok"
    /\ workers = {}

\* the stages invoked one by one, against any remote corpus
Init ==
    /\ InitCommon
    /\ remote \in [Items -> Versions]
    /\ \A i \in Items \ StoredItems : remote[i] = [edited_at |-> 1, updated_at |-> 1]

----------------------------------------------------------------------------
(* Operations *)

Range(seq) == { seq[k] : k \in 1..Len(seq) }

Faulty(log) == \E k \in 1..Len(log) : log[k].res = "err"

\* what `calls` keeps of the calls of an operation: all of them for a run of
\* main(), and for a stage invoked alone the artifact writes and the calls to
\* the upload service and to the index
Kept(log, all) ==
    IF all THEN log
    ELSE SelectSeq(log, LAMBDA c : c.op \notin {"list_category", "list_section",
                                                 "vector_store"})

UploadsLeft == Cardinality(Items) + MaxUploads + 1 - nextId

\* the listing outcomes a run of the scraper can meet: a section is listed
\* only if the listing of its category succeeded
ListingOutcomes ==
    { o \in [cat : [{1, 2} -> BOOLEAN], sec : [{1, 2} -> BOOLEAN]] :
        \A s \in {1, 2} :
            s \notin Range(GetSectionsFromCategoriesConcurrent(CATEGORY_IDS, o.cat))
                => o.sec[s] }

\* scraper.run(CATEGORY_IDS); log0 holds the calls made before it
DoFetch(log0, all) ==
    /\ \E o \in ListingOutcomes :
        LET st == ScraperRun([md |-> metadata, fs |-> files, log |-> log0],
                             o.cat, o.sec)
        IN  /\ metadata' = st.md
            /\ files' = st.fs
            /\ calls' = Kept(st.log, all)
    /\ UNCHANGED <<remote, workers, document, index, nextId, now>>

\* the upload service answers each upload call of the batch
DoUpload(log0, file_paths) ==
    /\ Len(file_paths) <= UploadsLeft
    /\ \E upOk \in [Range(file_paths) -> BOOLEAN] :
        LET st == UploadFilesBatch(
                    [md |-> metadata, next |-> nextId, log |-> log0],
                    file_paths, upOk)
        IN  /\ metadata' = st.md
            /\ nextId' = st.next
            /\ calls' = st.log
    /\ UNCHANGED <<files, remote, workers, document, index, now>>

\* uploader.upload_markdown_files_batch(scraper.output_dir)
DoUploadStage(log0) == DoUpload(log0, FilesToUpload(metadata, files))

\* uploader.upload_articles_by_ids_batch(article_ids, force_reupload=...)
DoUploadByIds(log0) ==
    \E S \in SUBSET Items \ {{}}, force_reupload \in BOOLEAN :
        DoUpload(log0, FilePathsByIds(metadata, files, SortedSeq(S), force_reupload))

\* the attach stage wrote the timestamp t
Stamped(md, t) == \E i \in DOMAIN md : md[i].vector_store_attached_at = t

\* the answers of the index to the calls of one attach stage: a detach call
\* per attached record that needs an update, an attach call per uploaded
\* record; "already attached" is an answer only for an attached object
IndexOutcomes(md, idx, storeOk) ==
    LET loaded == UploaderLoadArticlesMetadata(md)
        updates == { i \in Range(Classified(loaded, "files_needing_update")) :
                        loaded[i].vector_store_attachment_status = "attached" }
        attaches == Range(Classified(loaded, "uploaded_files"))
    IN  IF ~storeOk THEN { [det |-> <<>>, att |-> <<>>] }
        ELSE { o \in [det : [updates -> BOOLEAN],
                      att : [attaches -> {"ok", "dup", "err"}]] :
                 \A i \in attaches :
                    o.att[i] = "dup" => loaded[i].openai_file_id \in idx }

\* uploader.create_and_check_vector_store();
\* uploader.attach_uploaded_files_to_vector_store()
DoAttachStage(log0, all) ==
    /\ \E storeOk \in BOOLEAN :
       \E o \in IndexOutcomes(metadata, index, storeOk) :
        LET st == AttachUploadedFilesToVectorStore(
                    [md |-> metadata, mem |-> metadata, idx |-> index,
                     next |-> nextId,
                     log |-> IF storeOk THEN log0
                             ELSE Append(log0, Call("vector_store", None, None, "err"))],
                    CreateAndCheckVectorStore(storeOk), o.det, <<>>, o.att, now + 1)
        IN  /\ Stamped(st.md, now + 1) => now < MaxClock
            /\ metadata' = st.md
            /\ index' = st.idx
            /\ nextId' = st.next
            /\ calls' = Kept(st.log, all)
            /\ now' = IF Stamped(st.md, now + 1) THEN now + 1 ELSE now
    /\ UNCHANGED <<files, remote, workers, document>>

Fetch == DoFetch(<<>>, FALSE) /\ UNCHANGED <<pc, run>>

UploadStage == DoUploadStage(<<>>) /\ UNCHANGED <<pc, run>>

UploadByIds == DoUploadByIds(<<>>) /\ UNCHANGED <<pc, run>>

AttachStage == DoAttachStage(<<>>, FALSE) /\ UNCHANGED <<pc, run>>

Next == Fetch \/ UploadStage \/ UploadByIds \/ AttachStage

Spec == Init /\ [][Next]_vars

----------------------------------------------------------------------------
(* main(): fetch, upload stage, attach stage, run after run *)

InitMain == Init

\* the object id of every record that is uploaded and attached when a run starts
AttachedAtStart(md) ==
    LET S == { i \in DOMAIN md :
                /\ md[i].openai_upload_status = "uploaded"
                /\ Truthy(md[i].openai_file_id)
                /\ md[i].vector_store_attachment_status = "attached" }
    IN  [i \in S |-> md[i].openai_file_id]

MainFetch ==
    /\ pc = "idle"
    /\ run.n < MaxRuns
    /\ DoFetch(<<>>, TRUE)
    /\ pc' = "upload"
    /\ run' = [run EXCEPT
                !.prev = IF run.n = 0 THEN "none"
                         ELSE IF Faulty(calls) THEN "faulty" ELSE "clean",
                !.old = AttachedAtStart(metadata)]

MainUpload ==
    /\ pc = "upload"
    /\ DoUploadStage(calls)
    /\ pc' = "attach"
    /\ UNCHANGED run

MainAttach ==
    /\ pc = "attach"
    /\ DoAttachStage(calls, TRUE)
    /\ pc' = "idle"
    /\ run' = [run EXCEPT !.n = @ + 1]

NextMain == MainFetch \/ MainUpload \/ MainAttach

SpecMain == InitMain /\ [][NextMain]_vars

----------------------------------------------------------------------------
(* Properties *)

\* the calls of kind op made for article i
CallsFor(log, op, i) == SelectSeq(log, LAMBDA c : c.op = op /\ c.id = i)

\* the artifact writes, upload calls and index attach calls in a list of calls
Work(log) == SelectSeq(log, LAMBDA c : c.op \in {"write", "upload", "attach"})

\* the run of main() in progress, or just completed, is the second of two
SecondRun == run.prev # "none"

AnsweredOk(log) ==
    \A k \in 1..Len(log) :
        log[k].op \in {"upload", "attach", "detach"} => log[k].res = "ok"

\* position d of the list holds a detach call for object f, and a later
\* position an attach call for article i
DetachedThenAttached(log, f, i) ==
    \E d \in 1..Len(log) : \E a \in (d + 1)..Len(log) :
        /\ log[d].op = "detach" /\ log[d].fid = f
        /\ log[a].op = "attach" /\ log[a].id = i /\ log[a].fid # f

\* C2: the attach stage, for a record that is uploaded and attached and whose
\* updated_at differs from its last_uploaded_updated_at, detaches the old
\* object, then uploads the artifact again, then attaches the new object, and
\* ends with the record attached, with a fresh attach timestamp and with an
\* object id other than the old one (here: when every remote call succeeds).
C2_SupersedeReplacesObject ==
    AnsweredOk(calls) =>
        \A d \in 1..Len(calls) :
            calls[d].op = "detach" =>
                LET i == calls[d].id
                    old == calls[d].fid
                IN  /\ \E u \in (d + 1)..Len(calls) :
                          /\ calls[u].op = "upload" /\ calls[u].id = i
                          /\ \E a \in (u + 1)..Len(calls) :
                                /\ calls[a].op = "attach" /\ calls[a].id = i
                                /\ calls[a].fid = calls[u].fid
                    /\ metadata[i].vector_store_attachment_status = "attached"
                    /\ metadata[i].vector_store_attached_at = now
                    /\ metadata[i].vector_store_id = StoreId
                    /\ metadata[i].openai_file_id # old

\* C3: a run of main() in which no call fails, for an article that was
\* uploaded and attached when the run started and that the run fetched anew,
\* detaches the old object before it attaches the new one and ends with the
\* record uploaded under a new object id, last_uploaded_updated_at equal to
\* the remote updated_at, and attached.
C3_RunSupersedesChangedArticle ==
    (pc = "idle" /\ run.n >= 1 /\ ~Faulty(calls)) =>
        \A i \in DOMAIN run.old :
            CallsFor(calls, "write", i) # <<>> =>
                /\ DetachedThenAttached(calls, run.old[i], i)
                /\ metadata[i].openai_upload_status = "uploaded"
                /\ metadata[i].openai_file_id # run.old[i]
                /\ metadata[i].last_uploaded_updated_at = remote[i].updated_at
                /\ metadata[i].vector_store_attachment_status = "attached"

\* C4: a record whose vector_store_attachment_status is "attached" has
\* openai_upload_status "uploaded", in every reachable state.
C4_AttachedImpliesUploaded ==
    \A i \in DOMAIN metadata :
        metadata[i].vector_store_attachment_status = "attached" =>
            metadata[i].openai_upload_status = "uploaded"

\* article i has an upload call in the list that the upload service answered
\* with an object id
UploadedOk(log, i) ==
    \E k \in 1..Len(log) : log[k].op = "upload" /\ log[k].id = i /\ log[k].res = "ok"

\* C5: after a successful upload of an article, its last_uploaded_updated_at
\* equals the updated_at its record had when the upload was made.
C5_WatermarkIsUpdatedAt ==
    [][\A i \in DOMAIN metadata :
          UploadedOk(calls', i) =>
              metadata'[i].last_uploaded_updated_at = metadata[i].updated_at]_vars

\* a successful upload has moved the watermark of a record from 1 to 2
C5_Witness ==
    \E i \in DOMAIN metadata :
        /\ UploadedOk(calls, i)
        /\ metadata[i].updated_at = 2
        /\ metadata[i].last_uploaded_updated_at = 2

\* C6: last_uploaded_updated_at of a record changes only in a successful
\* upload of its article: not in a failed upload, a fetch or an attach.
C6_WatermarkChangesOnlyOnUpload ==
    [][\A i \in DOMAIN metadata :
          metadata'[i].last_uploaded_updated_at # metadata[i].last_uploaded_updated_at
              => UploadedOk(calls', i)]_vars

UploadAttachFields(rec) ==
    <<rec.openai_upload_status, rec.openai_file_id, rec.last_uploaded_updated_at,
      rec.vector_store_attachment_status, rec.vector_store_attached_at,
      rec.vector_store_id>>

\* C7: a fetch that rewrites an existing record keeps the record's upload and
\* attach fields.
C7_RefetchKeepsUploadAttachState ==
    [][\A i \in DOMAIN metadata :
          CallsFor(calls', "write", i) # <<>> =>
              UploadAttachFields(EnsureMetadataCompatibility(metadata')[i])
                = UploadAttachFields(EnsureMetadataCompatibility(metadata)[i])]_vars

\* the listing of a section that lists article i succeeded, and so did the
\* listing of the category of that section
Fetched(i, log) ==
    \E c \in Range(CATEGORY_IDS) : \E s \in Range(RemoteSections(c)) :
        /\ i \in Range(RemoteArticleIds(s))
        /\ CallsFor(log, "list_category", c) = <<>>
        /\ CallsFor(log, "list_section", s) = <<>>

\* the step is the fetch of a run of main()
FetchStep == pc = "idle" /\ pc' = "upload"

\* C8: a fetch writes neither the artifact nor the record of an article whose
\* remote edited_at equals the stored one, and writes the artifact of a
\* fetched article whose edited_at differs exactly once, also when the
\* article is listed by two sections.
C8_ArtifactWrittenOnceIfChanged ==
    [][FetchStep =>
        \A i \in DOMAIN metadata :
            IF metadata[i].edited_at = remote[i].edited_at
            THEN CallsFor(calls', "write", i) = <<>> /\ metadata'[i] = metadata[i]
            ELSE Fetched(i, calls') => Len(CallsFor(calls', "write", i)) = 1]_vars

\* a fetch has just written, once, the artifact of article 1, which had a
\* record with another edited_at and is listed by both sections, both of
\* which were listed
C8_Witness ==
    /\ pc = "upload"
    /\ 1 \in DOMAIN run.old
    /\ Len(CallsFor(calls, "write", 1)) = 1
    /\ ~Faulty(calls)

\* C9: a fetched article that has no record gets a record and an artifact in
\* that fetch, whatever its remote edited_at.
C9_NewArticleGetsRecord ==
    [][FetchStep =>
        \A i \in Items \ DOMAIN metadata :
            Fetched(i, calls') => i \in DOMAIN metadata' /\ i \in files']_vars

\* C10: the attach stage makes no attach call and no detach call for a record
\* with skip_vector_store set and openai_upload_status "uploaded".
C10_SkippedNeverAttached ==
    [][\A i \in DOMAIN metadata :
          (metadata[i].skip_vector_store /\ metadata[i].openai_upload_status = "uploaded")
              => \A k \in 1..Len(calls') :
                    calls'[k].op \in {"attach", "detach"} =>
                        /\ calls'[k].id # i
                        /\ calls'[k].fid # metadata[i].openai_file_id]_vars

\* an attach stage has attached another article while a record that is
\* skipped, uploaded, attached and stale was in the store
C10_Witness ==
    \E i \in DOMAIN metadata :
        /\ metadata[i].skip_vector_store
        /\ metadata[i].openai_upload_status = "uploaded"
        /\ metadata[i].vector_store_attachment_status = "attached"
        /\ NeedsFileUpdate(metadata[i])
        /\ \E k \in 1..Len(calls) : calls[k].op = "attach" /\ calls[k].id # i

\* article i has an upload call in the list that failed
UploadFailed(log, i) ==
    \E k \in 1..Len(log) : log[k].op = "upload" /\ log[k].id = i /\ log[k].res = "err"

\* C11: when the upload call for an article fails, its record gets
\* openai_upload_status "failed" and the error, and keeps the openai_file_id
\* it had before the attempt.
C11_FailedUploadKeepsObjectId ==
    [][\A i \in DOMAIN metadata :
          UploadFailed(calls', i) =>
              /\ metadata'[i].openai_upload_status = "failed"
              /\ Truthy(metadata'[i].upload_error)
              /\ metadata'[i].openai_file_id = metadata[i].openai_file_id]_vars

\* the upload of an article that had been uploaded before has failed, and the
\* record is failed, has the error and still names the object
C11_Witness ==
    \E i \in DOMAIN metadata :
        /\ UploadFailed(calls, i)
        /\ metadata[i].openai_upload_status = "failed"
        /\ Truthy(metadata[i].upload_error)
        /\ Truthy(metadata[i].openai_file_id)

\* the article ids of the upload calls of the list, in the order of the calls
UploadAttempts(log) ==
    LET ups == CallsOf(log, "upload")
    IN  [k \in 1..Len(ups) |-> ups[k].id]

\* the step is the upload stage of a run of main()
UploadStep == pc = "upload" /\ pc' = "attach"

\* C12: an upload batch makes one upload call per selected article, in the
\* order of the selection, whatever the upload service answers to the others.
C12_EverySelectedAttemptedOnce ==
    [][UploadStep =>
        UploadAttempts(calls') = FilesToUpload(metadata, files)]_vars

\* the upload of article 1 failed and the batch went on to upload article 2
C12_Witness ==
    /\ pc = "attach"
    /\ \E j, k \in 1..Len(calls) :
        /\ j < k
        /\ calls[j] = Call("upload", 1, None, "err")
        /\ calls[k].op = "upload" /\ calls[k].id = 2 /\ calls[k].res = "ok"

----------------------------------------------------------------------------
(* The two selections of articles to upload *)

\* Scraper.get_articles_for_upload: should_upload for one record; a record
\* with skip_vector_store is passed over before force_reupload is looked at
ShouldUploadForUpload(article_data, force_reupload) ==
    IF article_data.skip_vector_store THEN FALSE
    ELSE \/ force_reupload
         \/ ShouldUpload(article_data)

\* Scraper.get_articles_for_upload: the articles_to_upload it returns
GetArticlesForUpload(md, fs, force_reupload) ==
    LET loaded == ScraperLoadArticlesMetadata(md)
    IN  SelectSeq(SortedSeq(DOMAIN loaded),
                  LAMBDA id : /\ ShouldUploadForUpload(loaded[id], force_reupload)
                              /\ id \in fs)

\* scraper.get_articles_for_upload(force_reupload=...): nothing is written,
\* `calls` holds the list returned
ArticlesForUpload ==
    /\ \E force_reupload \in BOOLEAN :
        /\ calls' = [k \in 1..Len(GetArticlesForUpload(metadata, files, force_reupload)) |->
                        Call("for_upload",
                             GetArticlesForUpload(metadata, files, force_reupload)[k],
                             None, "ok")]
        /\ pc' = IF force_reupload THEN "forced" ELSE "unforced"
    /\ UNCHANGED <<metadata, files, remote, workers, document, index, nextId, now, run>>

FailedUploads(log) == [i \in { j \in Items : UploadFailed(log, j) } |-> None]

\* uploader.upload_markdown_files_batch(directory);
\* run.old: the articles whose upload call failed in the invocation of the
\* upload stage just before this one
ResolvedUploadStage ==
    /\ DoUploadStage(<<>>)
    /\ pc' = "uploaded"
    /\ run' = [run EXCEPT !.old = IF pc = "uploaded" THEN FailedUploads(calls)
                                  ELSE <<>>]

\* the upload stage when the upload service answers every call of the batch
\* with an object id
UploadStageAllOk ==
    LET file_paths == FilesToUpload(metadata, files)
        st == UploadFilesBatch([md |-> metadata, next |-> nextId, log |-> <<>>],
                               file_paths, [i \in Range(file_paths) |-> TRUE])
    IN  /\ Len(file_paths) <= UploadsLeft
        /\ metadata' = st.md
        /\ nextId' = st.next
        /\ calls' = st.log
        /\ pc' = "uploaded"
        /\ run' = [run EXCEPT !.old = IF pc = "uploaded" THEN FailedUploads(calls)
                                      ELSE <<>>]
        /\ UNCHANGED <<files, remote, workers, document, index, now>>

NextResolver == ArticlesForUpload \/ ResolvedUploadStage

SpecResolver == Init /\ [][NextResolver]_vars

\* the decision table of the resolver of the upload stage
ResolverActs(rec, forceRefresh) ==
    \/ forceRefresh
    \/ rec.openai_upload_status = "pending"
    \/ rec.openai_upload_status = "failed"
    \/ /\ rec.openai_upload_status = "uploaded"
       /\ rec.updated_at # rec.last_uploaded_updated_at
    \/ /\ rec.openai_upload_status = "uploaded"
       /\ Truthy(rec.updated_at) /\ ~Truthy(rec.last_uploaded_updated_at)

\* C13: both selections of articles to upload select a record exactly when
\* force is set, or the record is pending, or failed, or uploaded with an
\* updated_at that differs from last_uploaded_updated_at, or uploaded with an
\* updated_at and no last_uploaded_updated_at.
C13_ResolverDecisionTable ==
    [][\A i \in DOMAIN metadata :
        /\ pc' \in {"forced", "unforced"} =>
              (CallsFor(calls', "for_upload", i) # <<>>
                 <=> ResolverActs(metadata[i], pc' = "forced"))
        /\ pc' = "uploaded" =>
              (CallsFor(calls', "upload", i) # <<>>
                 <=> ResolverActs(metadata[i], FALSE))]_vars

----------------------------------------------------------------------------
(* The upload stage and the attach stage invoked again and again on one
   directory *)

\* article i has an attach call in the list that the index refused, and not
\* as a duplicate
AttachFailed(log, i) ==
    \E k \in 1..Len(log) : log[k].op = "attach" /\ log[k].id = i /\ log[k].res = "err"

FailedAttaches(log) ==
    [i \in { j \in Items : AttachFailed(log, j) } |->
        (CHOOSE c \in Range(log) : c.op = "attach" /\ c.id = i /\ c.res = "err").fid]

\* uploader.create_and_check_vector_store();
\* uploader.attach_uploaded_files_to_vector_store()
\* run.old: the objects whose attach call failed in the invocation of the
\* attach stage just before this one
AttachInvocation ==
    /\ DoAttachStage(<<>>, TRUE)
    /\ pc' = "attached"
    /\ run' = [run EXCEPT !.old = IF pc = "attached" THEN FailedAttaches(calls)
                                  ELSE <<>>]


\* OpenAIUploader.attach_files_to_vector_store(file_id, article_id): every
\* exception of the attach call, whatever its text, records "failed";
\* st = [md, idx, log]
AttachFilesToVectorStore(st, store, file_id, article_id, attOut, t) ==
    LET loaded == UploaderLoadArticlesMetadata(st.md)
        call == Call("attach", article_id, file_id, attOut)
    IN  IF ~Truthy(store) THEN st
        ELSE IF attOut = "ok"
        THEN [md  |-> IF article_id \in DOMAIN loaded
                      THEN Put(loaded, article_id, Attached(loaded[article_id], t))
                      ELSE st.md,
              idx |-> st.idx \cup {file_id},
              log |-> Append(st.log, call)]
        ELSE [md  |-> IF article_id \in DOMAIN loaded
                      THEN Put(loaded, article_id,
                               [loaded[article_id] EXCEPT
                                  !.vector_store_attachment_status = "failed"])
                      ELSE st.md,
              idx |-> st.idx,
              log |-> Append(st.log, call)]

\* uploader.create_and_check_vector_store();
\* uploader.attach_files_to_vector_store(file_id, article_id) for the object
\* of an uploaded record
AttachSingle ==
    /\ \E i \in DOMAIN metadata, storeOk \in BOOLEAN, attOut \in {"ok", "dup", "err"} :
        /\ (metadata[i].openai_upload_status = "uploaded" /\ Truthy(metadata[i].openai_file_id))
        /\ attOut = "dup" => metadata[i].openai_file_id \in index
        /\ LET st == AttachFilesToVectorStore(
                        [md |-> metadata, idx |-> index,
                         log |-> IF storeOk THEN <<>>
                                 ELSE <<Call("vector_store", None, None, "err")>>],
                        CreateAndCheckVectorStore(storeOk),
                        metadata[i].openai_file_id, i, attOut, now + 1)
           IN  /\ Stamped(st.md, now + 1) => now < MaxClock
               /\ metadata' = st.md
               /\ index' = st.idx
               /\ calls' = st.log
               /\ now' = IF Stamped(st.md, now + 1) THEN now + 1 ELSE now
    /\ pc' = "attached_one"
    /\ UNCHANGED <<files, remote, workers, document, nextId, run>>

NextStages == ResolvedUploadStage \/ AttachInvocation \/ AttachSingle

SpecStages == Init /\ [][NextStages]_vars

\* the step is an invocation of the attach stage with a vector store
AttachStep == pc' = "attached" /\ CallsOf(calls', "vector_store") = <<>>

IndexCalls(log, i) ==
    SelectSeq(log, LAMBDA c : c.op \in {"attach", "detach"} /\ c.id = i)

IsUploaded(rec) == rec.openai_upload_status = "uploaded" /\ Truthy(rec.openai_file_id)

IsAttached(rec) == rec.vector_store_attachment_status = "attached"

\* the uploaded version is recorded and is not the stored updated_at
IsStale(rec) ==
    /\ Truthy(rec.updated_at) /\ Truthy(rec.last_uploaded_updated_at)
    /\ rec.updated_at # rec.last_uploaded_updated_at

\* C14: the attach stage makes, for a record that is not skipped: no index
\* call if it is not uploaded; one attach call if it is uploaded and not
\* attached; no index call if it is attached and current; a detach call, an
\* upload call and an attach call of the new object if it is attached and
\* stale.
C14_FourAttachStates ==
    [][AttachStep =>
        \A i \in DOMAIN metadata :
            LET rec == metadata[i]
            IN  ~rec.skip_vector_store =>
                  /\ ~IsUploaded(rec) => IndexCalls(calls', i) = <<>>
                  /\ (IsUploaded(rec) /\ ~IsAttached(rec)) =>
                        /\ Len(IndexCalls(calls', i)) = 1
                        /\ IndexCalls(calls', i)[1].op = "attach"
                  /\ (IsUploaded(rec) /\ IsAttached(rec) /\ ~IsStale(rec)) =>
                        IndexCalls(calls', i) = <<>>
                  /\ (IsUploaded(rec) /\ IsAttached(rec) /\ IsStale(rec)) =>
                        /\ DetachedThenAttached(calls', rec.openai_file_id, i)
                        /\ CallsFor(calls', "upload", i) # <<>>]_vars

\* C15: when the index answers an attach call with "already attached", the
\* record is recorded as attached, in the attach stage and in the attach of a
\* single object.
C15_DuplicateAttachIsSuccess ==
    \A k \in 1..Len(calls) :
        (calls[k].op = "attach" /\ calls[k].res = "dup") =>
            metadata[calls[k].id].vector_store_attachment_status = "attached"

\* C16: when the index refuses the attach call for an article in the attach
\* stage (and not as a duplicate), the record gets
\* vector_store_attachment_status "failed", and the next invocation of the
\* attach stage makes an attach call for the article again.
C16_FailedAttachIsRetried ==
    [][\A i \in DOMAIN metadata :
        /\ (pc' = "attached" /\ AttachFailed(calls', i)) =>
              metadata'[i].vector_store_attachment_status = "failed"
        /\ (pc = "attached" /\ AttachFailed(calls, i) /\ AttachStep) =>
              CallsFor(calls', "attach", i) # <<>>]_vars

\* the attach call for an article failed in one invocation of the attach
\* stage, and the next invocation made the call again and attached the object
C16_Witness ==
    /\ pc = "attached"
    /\ \E i \in DOMAIN run.old :
        /\ \E k \in 1..Len(calls) :
              calls[k] = Call("attach", i, run.old[i], "ok")
        /\ metadata[i].vector_store_attachment_status = "attached"

\* the stages are invoked again and again, and the upload service does not
\* fail for ever
SpecStagesFair == SpecStages /\ WF_vars(UploadStageAllOk)

HasFailedUpload(i) ==
    /\ i \in DOMAIN metadata /\ i \in files
    /\ metadata[i].openai_upload_status = "failed"

HasUploaded(i) ==
    i \in DOMAIN metadata /\ metadata[i].openai_upload_status = "uploaded"

\* C17: an article whose upload failed is selected by the next invocation of
\* the upload stage and, if the upload service then answers with an object
\* id, is uploaded after it; when the upload service does not fail for ever,
\* every failed record becomes uploaded.
C17_FailedUploadIsRetried ==
    /\ [][pc' = "uploaded" =>
            \A i \in DOMAIN metadata :
                (i \in files /\ metadata[i].openai_upload_status = "failed") =>
                    /\ Len(CallsFor(calls', "upload", i)) = 1
                    /\ UploadedOk(calls', i) =>
                          metadata'[i].openai_upload_status = "uploaded"]_vars
    /\ \A i \in Items :
          HasFailedUpload(i) ~> HasUploaded(i)

\* the upload of an article failed in one invocation of the upload stage, and
\* the next invocation uploaded it
C17_Witness ==
    /\ pc = "uploaded"
    /\ \E i \in DOMAIN run.old :
        /\ UploadedOk(calls, i)
        /\ metadata[i].openai_upload_status = "uploaded"

\* C18: when the listing of a category or of a section fails, that listing
\* contributes no article, and every article of a section that was listed
\* (its category listed too) is still processed in the same fetch: after it
\* the stored edited_at of the article is the remote one.
C18_ListingFailureIsIsolated ==
    [][FetchStep =>
        \A i \in Items :
            IF Fetched(i, calls')
            THEN Get(metadata', i).edited_at = remote[i].edited_at
            ELSE /\ CallsFor(calls', "write", i) = <<>>
                 /\ Get(metadata', i) = Get(metadata, i)]_vars

\* the listing of category 2 failed and the fetch wrote article 2, which
\* section 1 of category 1 lists
C18_Witness ==
    /\ pc = "upload"
    /\ CallsFor(calls, "list_category", 2) # <<>>
    /\ CallsFor(calls, "write", 2) # <<>>
    /\ 2 \in DOMAIN metadata /\ 2 \in files

----------------------------------------------------------------------------
(* The two concurrent enumerations with the completion order of the workers *)

\* the orders in which n workers can complete
CompletionOrders(n) ==
    { order \in [1..n -> 1..n] : \A j, k \in 1..n : order[j] = order[k] => j = k }

\* the loop over as_completed(...): the dict `results`, an entry per worker
\* in the order of completion
AsCompleted(ids, order, result) ==
    [k \in 1..Len(ids) |-> [key |-> ids[order[k]], value |-> result[ids[order[k]]]]]

\* results[id]
Lookup(results, id) == (CHOOSE e \in Range(results) : e.key = id).value

\* a collection that goes over the entries of `results` as they were added
CollectAsCompleted(ids, results) ==
    Concat([k \in 1..Len(results) |-> results[k].value])

\* the loop that follows: for id in ids: extend the list with results[id]
CollectInInputOrder(ids, results) ==
    Concat([k \in 1..Len(ids) |-> Lookup(results, ids[k])])

\* st = [md, fs, log]; the run of the scraper when the category workers
\* complete in catOrder and the section workers in secOrder. The log gets,
\* after the failed listings and the writes, the workers in their order of
\* completion and the two lists that run() returns.
ScraperRunAsCompleted(st, catOk, secOk, catOrder, secOrder) ==
    LET category_results ==
            AsCompleted(CATEGORY_IDS, catOrder,
                        [c \in Range(CATEGORY_IDS) |->
                            GetSectionsFromCategory(c, catOk[c])])
        all_sections == CollectInInputOrder(CATEGORY_IDS, category_results)
        section_results ==
            AsCompleted(all_sections, secOrder,
                        [s \in Range(all_sections) |->
                            GetArticlesFromSection(s, secOk[s])])
        all_articles == CollectInInputOrder(all_sections, section_results)
        saved == SaveArticles(
                    [st EXCEPT !.log =
                        @ \o ListingCalls("list_category", CATEGORY_IDS, catOk)
                          \o ListingCalls("list_section", all_sections, secOk)],
                    all_articles)
    IN  [saved EXCEPT !.log =
            @ \o [k \in 1..Len(category_results) |->
                    Call("category_done", category_results[k].key, None, "ok")]
              \o [k \in 1..Len(section_results) |->
                    Call("section_done", section_results[k].key, None, "ok")]
              \o [k \in 1..Len(all_sections) |->
                    Call("section", all_sections[k], None, "ok")]
              \o [k \in 1..Len(all_articles) |->
                    Call("article", all_articles[k].id, None, "ok")]]

\* scraper.run(CATEGORY_IDS), once on each stored document
FetchAsCompleted ==
    /\ pc = "idle"
    /\ \E o \in ListingOutcomes :
       \E catOrder \in CompletionOrders(Len(CATEGORY_IDS)) :
       \E secOrder \in CompletionOrders(
                         Len(GetSectionsFromCategoriesConcurrent(CATEGORY_IDS, o.cat))) :
        LET st == ScraperRunAsCompleted([md |-> metadata, fs |-> files, log |-> <<>>],
                                        o.cat, o.sec, catOrder, secOrder)
        IN  /\ metadata' = st.md
            /\ files' = st.fs
            /\ calls' = st.log
    /\ pc' = "fetched"
    /\ UNCHANGED <<remote, workers, document, index, nextId, now, run>>

NextEnumeration == FetchAsCompleted

SpecEnumeration == Init /\ [][NextEnumeration]_vars

Ids(log, op) ==
    LET cs == CallsOf(log, op)
    IN  [k \in 1..Len(cs) |-> cs[k].id]

\* the sections of the categories whose listing did not fail, category by
\* category in the order of CATEGORY_IDS
SectionsInInputOrder(log) ==
    Concat([k \in 1..Len(CATEGORY_IDS) |->
                IF CallsFor(log, "list_category", CATEGORY_IDS[k]) = <<>>
                THEN RemoteSections(CATEGORY_IDS[k]) ELSE <<>>])

\* the articles of those sections whose listing did not fail, section by
\* section in that order
ArticlesInInputOrder(log) ==
    Concat([k \in 1..Len(SectionsInInputOrder(log)) |->
                IF CallsFor(log, "list_section", SectionsInInputOrder(log)[k]) = <<>>
                THEN RemoteArticleIds(SectionsInInputOrder(log)[k]) ELSE <<>>])

\* C19: whatever the order in which the workers complete, the list of
\* sections and the list of articles that the two concurrent enumerations
\* return are the concatenation of the results in the order of the
\* identifiers given.
C19_ListsInInputOrder ==
    pc = "fetched" =>
        /\ Ids(calls, "section") = SectionsInInputOrder(calls)
        /\ Ids(calls, "article") = ArticlesInInputOrder(calls)

\* the workers of category 2 and of section 2 completed first, every listing
\* was answered, and the lists are those of category 1 then 2 and of section
\* 1 then 2
C19_Witness ==
    /\ pc = "fetched"
    /\ Ids(calls, "category_done") = <<2, 1>>
    /\ Ids(calls, "section_done") = <<2, 1>>
    /\ Ids(calls, "section") = <<1, 2>>
    /\ Ids(calls, "article") = <<1, 2, 1>>

----------------------------------------------------------------------------
(* The stages on a directory whose articles_metadata.json is missing or
   damaged *)

\* Scraper.load_articles_metadata: {} for a missing file and for every
\* exception of open and json.load; what json.load returns otherwise, a
\* mapping or not
ScraperLoadDocument(doc, md) ==
    IF doc \in {"missing", "unparseable"} THEN [mapping |-> TRUE, value |-> <<>>]
    ELSE IF doc = "not_a_mapping" THEN [mapping |-> FALSE, value |-> <<>>]
    ELSE [mapping |-> TRUE, value |-> md]

\* the damaged documents. OpenAIUploader.load_articles_metadata gives {} for
\* each of them (ensure_metadata_compatibility is called inside the try, so
\* a value without .items() gives {} as well): `metadata` is <<>> as long as
\* the document is damaged
Documents == {"missing", "unparseable", "not_a_mapping"}

\* a directory with a damaged document may still hold artifacts
InitStore ==
    /\ document \in Documents
    /\ workers = {}
    /\ metadata = <<>>
    /\ files \in SUBSET StoredItems
    /\ index = AttachedObjects(metadata)
    /\ nextId = Cardinality(Items) + 1
    /\ now = 1
    /\ pc = "idle"
    /\ calls = <<>>
    /\ run = [n |-> 0, prev |-> "none", old |-> <<>>]
    /\ remote \in [Items -> Versions]
    /\ \A i \in Items \ StoredItems : remote[i] = [edited_at |-> 1, updated_at |-> 1]

\* scraper.run(CATEGORY_IDS): save_article_as_markdown calls .get on what the
\* load returned (all_metadata.get(article_id, {})), outside every try, so
\* the first article of a run whose document is not a mapping raises
\* AttributeError out of run(); the first save of a run writes a mapping
StoreFetch ==
    /\ \E o \in ListingOutcomes :
        LET loaded == ScraperLoadDocument(document, metadata)
            listed == Concat([k \in 1..Len(GetSectionsFromCategoriesConcurrent(
                                                CATEGORY_IDS, o.cat)) |->
                        GetArticlesFromSection(
                            GetSectionsFromCategoriesConcurrent(CATEGORY_IDS, o.cat)[k],
                            o.sec[GetSectionsFromCategoriesConcurrent(
                                            CATEGORY_IDS, o.cat)[k]])])
            st == ScraperRun([md |-> loaded.value, fs |-> files, log |-> <<>>],
                             o.cat, o.sec)
        IN  IF ~loaded.mapping /\ listed # <<>>
            THEN /\ calls' = ListingCalls("list_category", CATEGORY_IDS, o.cat)
                             \o ListingCalls("list_section",
                                    GetSectionsFromCategoriesConcurrent(
                                        CATEGORY_IDS, o.cat), o.sec)
                             \o <<Call("abort", listed[1].id, None, "err")>>
                 /\ pc' = "aborted"
                 /\ UNCHANGED <<metadata, files, document>>
            ELSE /\ metadata' = st.md
                 /\ files' = st.fs
                 /\ calls' = st.log
                 /\ document' = IF CallsOf(st.log, "write") # <<>> THEN "ok"
                                ELSE document
                 /\ pc' = "fetched"
    /\ UNCHANGED <<remote, workers, index, nextId, now, run>>

NextStore == StoreFetch \/ ResolvedUploadStage \/ AttachInvocation

SpecStore == InitStore /\ [][NextStore]_vars

\* C20: a load of a document that is missing, cannot be read or is damaged
\* gives the empty mapping, and the stage goes on as on an empty store: no
\* stage is aborted, and a fetch writes every article it is given that has an
\* edited_at.
C20_DamagedStoreReadsAsEmpty ==
    [][document # "ok" =>
        /\ pc' # "aborted"
        /\ pc' = "fetched" =>
              \A i \in Items :
                  (Fetched(i, calls') /\ Truthy(remote[i].edited_at)) =>
                      CallsFor(calls', "write", i) # <<>>]_vars

----------------------------------------------------------------------------
(* The two loads of the document *)

\* the three keys of the compatibility pass are in the record
HasAttachFields(rec) ==
    /\ rec.vector_store_attachment_status # "missing"
    /\ rec.vector_store_attached_at # Missing
    /\ rec.vector_store_id # Missing

\* `loaded` is `stored` with "pending" and None put where a key was absent,
\* and with everything else as it was stored
Backfilled(loaded, stored) ==
    /\ DOMAIN loaded = DOMAIN stored
    /\ \A i \in DOMAIN stored :
        /\ HasAttachFields(loaded[i])
        /\ loaded[i] =
              [stored[i] EXCEPT
                 !.vector_store_attachment_status =
                     IF @ = "missing" THEN "pending" ELSE @,
                 !.vector_store_attached_at = IF @ = Missing THEN None ELSE @,
                 !.vector_store_id = IF @ = Missing THEN None ELSE @]

\* the load of the upload stage and of the attach stage fills the three keys
UploaderLoadBackfills ==
    Backfilled(UploaderLoadArticlesMetadata(metadata), metadata)

\* C21: every record that a load of the document returns has
\* vector_store_attachment_status, vector_store_attached_at and
\* vector_store_id, with "pending" and None where the stored record had no
\* such key and the stored value otherwise, in the load of the fetch stage
\* and in the load of the upload and attach stages.
C21_LoadBackfillsAttachFields ==
    /\ Backfilled(ScraperLoadArticlesMetadata(metadata), metadata)
    /\ Backfilled(UploaderLoadArticlesMetadata(metadata), metadata)

----------------------------------------------------------------------------
(* A run of main() in which local reads and writes can fail *)

MaxFaults == 1      \* local reads and writes that fail in one stage invocation
MaxIo == 9          \* local reads and writes a stage invocation is followed for

\* which of the local reads and writes of a stage invocation fail, by their
\* position in the order in which the stage makes them
FaultSets == { S \in SUBSET (1..MaxIo) : Cardinality(S) <= MaxFaults }

\* st = [md, doc, fs, idx, next, log, io, faults, raised]: the document (md
\* is what it holds when doc = "ok"), the artifacts, the vector store, the
\* upload service's next id, the calls, the local reads and writes made so
\* far, those that fail, and whether an exception has left the stage
Fails(st) == (st.io + 1) \in st.faults

\* the stage has made the local read or write `op`
Done(st, op, id, ok) ==
    [st EXCEPT !.io = @ + 1,
               !.log = Append(@, Call(op, id, None, IF ok THEN "ok" ELSE "err"))]

\* what the document holds for a load that did not fail
Stored(st) == IF st.doc = "ok" THEN st.md ELSE <<>>

\* Scraper.save_article_as_markdown with its load, its artifact write and its
\* save: a load that fails gives {}, a write that fails returns None before
\* the record is touched, a save that fails leaves the document as it was
SaveArticleAsMarkdownIO(st, article) ==
    LET loaded == IF Fails(st) THEN [mapping |-> TRUE, value |-> <<>>]
                  ELSE ScraperLoadDocument(st.doc, st.md)
        s1 == Done(st, "load", article.id, ~Fails(st))
        all_metadata == loaded.value
        existing_article == Get(all_metadata, article.id)
        s2 == Done(s1, "write", article.id, ~Fails(s1))
        s3 == Done(s2, "save", article.id, ~Fails(s2))
    IN  IF st.raised THEN st
        ELSE IF ~loaded.mapping
        THEN [s1 EXCEPT !.raised = TRUE,
                        !.log = Append(@, Call("abort", article.id, None, "err"))]
        ELSE IF ~ShouldUpdate(existing_article.edited_at, article.edited_at) THEN s1
        ELSE IF Fails(s1) THEN s2
        ELSE IF Fails(s2) THEN [s3 EXCEPT !.fs = @ \cup {article.id}]
        ELSE [s3 EXCEPT !.fs = @ \cup {article.id},
                        !.md = Put(all_metadata, article.id, NewRecord(article)),
                        !.doc = "ok"]

RECURSIVE SaveArticlesIO(_, _)
SaveArticlesIO(st, articles) ==
    IF articles = <<>> THEN st
    ELSE SaveArticlesIO(SaveArticleAsMarkdownIO(st, Head(articles)), Tail(articles))

\* Scraper.run
ScraperRunIO(st, catOk, secOk) ==
    LET all_sections == GetSectionsFromCategoriesConcurrent(CATEGORY_IDS, catOk)
    IN  SaveArticlesIO(
            [st EXCEPT !.log = @ \o ListingCalls("list_category", CATEGORY_IDS, catOk)
                                 \o ListingCalls("list_section", all_sections, secOk)],
            Concat([k \in 1..Len(all_sections) |->
                        GetArticlesFromSection(all_sections[k], secOk[all_sections[k]])]))

\* OpenAIUploader.update_upload_status with its load and its save: a load
\* that fails gives {}, so that the record is not found and nothing is saved
UpdateUploadStatusIO(st, article_id, status, openai_file_id, error) ==
    LET s1 == Done(st, "load", article_id, ~Fails(st))
        s2 == Done(s1, "save", article_id, ~Fails(s1))
    IN  IF Fails(st) \/ article_id \notin DOMAIN Stored(st) THEN s1
        ELSE IF Fails(s1) THEN s2
        ELSE [s2 EXCEPT !.md = UpdateUploadStatus(st.md, article_id, status,
                                                  openai_file_id, error)]

\* one pass of the loop of upload_files_batch: open(file_path, "rb") raises
\* for a missing or unreadable artifact, inside the try
UploadOneFileIO(st, article_id, ok) ==
    LET s1 == Done(st, "open", article_id, ~Fails(st) /\ article_id \in st.fs)
    IN  IF Fails(st) \/ article_id \notin st.fs
        THEN UpdateUploadStatusIO(s1, article_id, "failed", None, 1)
        ELSE IF ok
        THEN UpdateUploadStatusIO(
                [s1 EXCEPT !.next = @ + 1,
                           !.log = Append(@, Call("upload", article_id, s1.next, "ok"))],
                article_id, "uploaded", s1.next, None)
        ELSE UpdateUploadStatusIO(
                [s1 EXCEPT !.log = Append(@, Call("upload", article_id, None, "err"))],
                article_id, "failed", None, 1)

RECURSIVE UploadFilesBatchIO(_, _, _)
UploadFilesBatchIO(st, file_paths, upOk) ==
    IF file_paths = <<>> THEN st
    ELSE UploadFilesBatchIO(
            UploadOneFileIO(st, Head(file_paths), upOk[Head(file_paths)]),
            Tail(file_paths), upOk)

\* OpenAIUploader.upload_markdown_files_batch: with a load that fails every
\* artifact is read with the defaults of .get, "pending" among them
UploadMarkdownFilesBatchIO(st, upOk) ==
    LET s1 == Done(st, "load", None, ~Fails(st))
        loaded == IF Fails(st) THEN <<>> ELSE Stored(st)
    IN  IF st.fs = {} THEN st
        ELSE UploadFilesBatchIO(s1, FilesToUpload(loaded, st.fs), upOk)

\* what the load of the attach stage returns
AttachLoaded(st) == IF Fails(st) THEN <<>> ELSE Stored(st)

\* OpenAIUploader.attach_uploaded_files_to_vector_store with its load, its
\* save and the load of print_attachment_status_report: a load that fails
\* gives {} and the stage returns; a save that fails leaves the document as
\* it was while the index keeps what was attached
AttachUploadedFilesToVectorStoreIO(st, store, detOk, upOk, attOut, t) ==
    LET md0 == AttachLoaded(st)
        loaded == UploaderLoadArticlesMetadata(md0)
        s1 == Done(st, "load", None, ~Fails(st))
        r == AttachUploadedFilesToVectorStore(
                [md |-> md0, mem |-> md0, idx |-> st.idx, next |-> st.next,
                 log |-> s1.log],
                store, detOk, upOk, attOut, t)
        s2 == [s1 EXCEPT !.idx = r.idx, !.next = r.next, !.log = r.log]
        s3 == Done(s2, "save", None, ~Fails(s2))
        s4 == IF Fails(s2) THEN s3 ELSE [s3 EXCEPT !.md = r.md, !.doc = "ok"]
    IN  IF store = None THEN st
        ELSE IF DOMAIN loaded = {} THEN s1
        ELSE IF /\ Classified(loaded, "uploaded_files") = <<>>
                /\ Classified(loaded, "files_needing_update") = <<>>
        THEN s2
        ELSE Done(s4, "load", None, ~Fails(s4))

\* the stores and the damaged documents, against a remote corpus in which
\* edited_at and updated_at of an article are the same
InitIO ==
    /\ Init \/ InitStore
    /\ \A i \in Items : remote[i].updated_at = remote[i].edited_at

\* scraper.run(CATEGORY_IDS): an exception that leaves it ends main()
IoFetch ==
    /\ pc = "idle"
    /\ \E o \in ListingOutcomes, faults \in FaultSets :
        LET st == ScraperRunIO(
                    [md |-> metadata, doc |-> document, fs |-> files,
                     idx |-> index, next |-> nextId, log |-> <<>>, io |-> 0,
                     faults |-> faults, raised |-> FALSE],
                    o.cat, o.sec)
        IN  /\ metadata' = st.md
            /\ document' = st.doc
            /\ files' = st.fs
            /\ calls' = st.log
            /\ pc' = IF st.raised THEN "aborted" ELSE "upload"
    /\ UNCHANGED <<remote, workers, index, nextId, now, run>>

\* uploader.upload_markdown_files_batch(scraper.output_dir)
IoUpload ==
    /\ pc = "upload"
    /\ \E upOk \in [files -> BOOLEAN], faults \in FaultSets :
        LET st == UploadMarkdownFilesBatchIO(
                    [md |-> metadata, doc |-> document, fs |-> files,
                     idx |-> index, next |-> nextId, log |-> <<>>, io |-> 0,
                     faults |-> faults, raised |-> FALSE],
                    upOk)
        IN  /\ metadata' = st.md
            /\ document' = st.doc
            /\ nextId' = st.next
            /\ calls' = st.log
            /\ pc' = IF st.raised THEN "aborted" ELSE "attach"
    /\ UNCHANGED <<files, remote, workers, index, now, run>>

\* uploader.create_and_check_vector_store();
\* uploader.attach_uploaded_files_to_vector_store()
IoAttach ==
    /\ pc = "attach"
    /\ \E storeOk \in BOOLEAN, faults \in FaultSets :
       LET st0 == [md |-> metadata, doc |-> document, fs |-> files,
                   idx |-> index, next |-> nextId,
                   log |-> IF storeOk THEN <<>>
                           ELSE <<Call("vector_store", None, None, "err")>>,
                   io |-> 0, faults |-> faults, raised |-> FALSE]
       IN  \E o \in IndexOutcomes(AttachLoaded(st0), index, storeOk) :
            LET st == AttachUploadedFilesToVectorStoreIO(
                        st0, CreateAndCheckVectorStore(storeOk),
                        o.det, <<>>, o.att, now + 1)
            IN  /\ metadata' = st.md
                /\ document' = st.doc
                /\ index' = st.idx
                /\ nextId' = st.next
                /\ calls' = st.log
                /\ now' = IF Stamped(st.md, now + 1) THEN now + 1 ELSE now
                /\ pc' = IF st.raised THEN "aborted" ELSE "done"
    /\ UNCHANGED <<files, remote, workers, run>>

NextIO == IoFetch \/ IoUpload \/ IoAttach

SpecIO == InitIO /\ [][NextIO]_vars

\* C22: no fetch, upload stage or attach stage removes a record from the
\* document: an article that has a record has one after every stage, also
\* when a load of the document fails.
C22_RecordsAreNeverDeleted ==
    [][document = "ok" =>
          /\ document' = "ok"
          /\ \A i \in DOMAIN metadata : i \in DOMAIN metadata']_vars

\* C23: whatever remote calls and local reads and writes fail, no error ends
\* a run of main() before it has gone through the fetch, the upload stage
\* and the attach stage.
C23_NoErrorEndsTheRun == pc # "aborted"

----------------------------------------------------------------------------
(* The uploads on a directory in which artifacts of stored records are
   missing *)

\* Scraper.update_upload_status: no uploaded version is recorded here
ScraperUpdateUploadStatus(md, article_id, status, openai_file_id, error) ==
    LET loaded == ScraperLoadArticlesMetadata(md)
        rec == loaded[article_id]
    IN  IF article_id \in DOMAIN loaded
        THEN Put(loaded, article_id,
                 [rec EXCEPT
                    !.openai_upload_status = status,
                    !.openai_file_id = IF Truthy(openai_file_id)
                                       THEN openai_file_id ELSE @,
                    !.upload_error = error])
        ELSE md

\* Scraper.upload_article_by_id; st = [md, fs, log]. A Scraper has no
\* attribute `client`: self.client.files.create raises AttributeError inside
\* the try, and the handler records the upload as failed
ScraperUploadArticleById(st, article_id, force_reupload) ==
    LET loaded == ScraperLoadArticlesMetadata(st.md)
        metadata_of == Get(loaded, article_id)
        up_to_date ==
            /\ metadata_of.openai_upload_status = "uploaded" /\ ~force_reupload
            /\ Truthy(metadata_of.updated_at)
            /\ Truthy(metadata_of.last_uploaded_updated_at)
            /\ metadata_of.updated_at = metadata_of.last_uploaded_updated_at
    IN  IF article_id \notin DOMAIN loaded THEN st
        ELSE IF up_to_date THEN st
        ELSE IF article_id \notin st.fs THEN st
        ELSE [st EXCEPT
                !.md = ScraperUpdateUploadStatus(st.md, article_id, "failed", None, 1),
                !.log = Append(@, Call("client", article_id, None, "err"))]

\* OpenAIUploader.upload_articles_by_ids_batch with the open of each artifact
UploadArticlesByIdsBatchIO(st, article_ids, force_reupload, upOk) ==
    UploadFilesBatchIO(st, FilePathsByIds(Stored(st), st.fs, article_ids,
                                          force_reupload), upOk)

\* a directory from which artifacts of stored records have been removed
InitArtifacts ==
    /\ metadata \in InitialStores
    /\ files \in SUBSET DOMAIN metadata
    /\ index = AttachedObjects(metadata)
    /\ nextId = Cardinality(Items) + 1
    /\ now = 1
    /\ pc = "idle"
    /\ calls = <<>>
    /\ run = [n |-> 0, prev |-> "none", old |-> <<>>]
    /\ document = "ok"
    /\ workers = {}
    /\ remote = [i \in Items |-> [edited_at |-> 1, updated_at |-> 1]]

\* the stage starts on the directory as it is, and no local read or write fails
Directory(log) ==
    [md |-> metadata, doc |-> document, fs |-> files, idx |-> index,
     next |-> nextId, log |-> log, io |-> 0, faults |-> {}, raised |-> FALSE]

Requested(ids) == [k \in 1..Len(ids) |-> Call("requested", ids[k], None, "ok")]

\* uploader.upload_markdown_files_batch(directory)
ArtifactsUploadStage ==
    /\ \E upOk \in [files -> BOOLEAN] :
        LET st == UploadMarkdownFilesBatchIO(Directory(<<>>), upOk)
        IN  /\ st.next <= Cardinality(Items) + MaxUploads + 1
            /\ metadata' = st.md
            /\ nextId' = st.next
            /\ calls' = st.log
    /\ pc' = "uploaded"
    /\ UNCHANGED <<files, remote, workers, document, index, now, run>>

\* uploader.upload_articles_by_ids_batch(article_ids, force_reupload=...)
ArtifactsUploadByIds ==
    /\ \E S \in SUBSET Items \ {{}}, force_reupload \in BOOLEAN,
          upOk \in [Items -> BOOLEAN] :
        LET st == UploadArticlesByIdsBatchIO(
                    Directory(Requested(SortedSeq(S))), SortedSeq(S),
                    force_reupload, upOk)
        IN  /\ st.next <= Cardinality(Items) + MaxUploads + 1
            /\ metadata' = st.md
            /\ nextId' = st.next
            /\ calls' = st.log
    /\ pc' = "uploaded_ids"
    /\ UNCHANGED <<files, remote, workers, document, index, now, run>>

\* scraper.upload_article_by_id(article_id, force_reupload=...)
ArtifactsUploadById ==
    /\ \E i \in Items, force_reupload \in BOOLEAN :
        LET st == ScraperUploadArticleById(
                    [md |-> metadata, fs |-> files, log |-> Requested(<<i>>)],
                    i, force_reupload)
        IN  /\ metadata' = st.md
            /\ calls' = st.log
    /\ pc' = "uploaded_one"
    /\ UNCHANGED <<files, remote, workers, document, index, nextId, now, run>>

\* the attach stage, with the upload inside its loop over files_needing_update
ArtifactsAttach ==
    /\ DoAttachStage(<<>>, TRUE)
    /\ pc' = "attached"
    /\ UNCHANGED run

NextArtifacts ==
    \/ ArtifactsUploadStage
    \/ ArtifactsUploadByIds
    \/ ArtifactsUploadById
    \/ ArtifactsAttach

SpecArtifacts == InitArtifacts /\ [][NextArtifacts]_vars

\* C24: an upload stage, an upload by ids and the attach stage make no upload
\* call for a record whose artifact is missing, and do not turn its
\* openai_upload_status into "failed".
C24_MissingArtifactIsSkipped ==
    [][\A i \in DOMAIN metadata :
          i \notin files =>
              /\ CallsFor(calls', "upload", i) = <<>>
              /\ metadata'[i].openai_upload_status = "failed" =>
                    metadata[i].openai_upload_status = "failed"]_vars

\* an upload by ids was asked for a pending record whose
\* artifact is missing, and the record is still pending
C24_Witness ==
    /\ pc = "uploaded_ids"
    /\ \E i \in DOMAIN metadata :
        /\ i \notin files
        /\ CallsFor(calls, "requested", i) # <<>>
        /\ metadata[i].openai_upload_status = "pending"

----------------------------------------------------------------------------
(* The attachment status report *)

\* a summary loop that counts under "pending" only the records whose status
\* is "pending"
SummaryStepPendingOnly(acc, article_id, article_data) ==
    LET status == IF article_data.vector_store_attachment_status = "missing"
                  THEN "pending"
                  ELSE article_data.vector_store_attachment_status
    IN  IF status = "attached"
        THEN [acc EXCEPT !.counts.attached = @ + 1,
                         !.attached = Append(@, article_id)]
        ELSE IF status = "failed"
        THEN [acc EXCEPT !.counts.failed = @ + 1,
                         !.failed = Append(@, article_id)]
        ELSE IF status = "pending"
        THEN [acc EXCEPT !.counts.pending = @ + 1,
                         !.pending = Append(@, article_id)]
        ELSE acc

\* one pass of the loop of get_attachment_status_summary;
\* status = article_data.get("vector_store_attachment_status", "pending")
SummaryStep(acc, article_id, article_data) ==
    LET status == IF article_data.vector_store_attachment_status = "missing"
                  THEN "pending"
                  ELSE article_data.vector_store_attachment_status
    IN  IF status = "attached"
        THEN [acc EXCEPT !.counts.attached = @ + 1,
                         !.attached = Append(@, article_id)]
        ELSE IF status = "failed"
        THEN [acc EXCEPT !.counts.failed = @ + 1,
                         !.failed = Append(@, article_id)]
        ELSE [acc EXCEPT !.counts.pending = @ + 1,
                         !.pending = Append(@, article_id)]

RECURSIVE SummaryLoop(_, _, _)
SummaryLoop(acc, ids, loaded) ==
    IF ids = <<>> THEN acc
    ELSE SummaryLoop(SummaryStep(acc, Head(ids), loaded[Head(ids)]),
                     Tail(ids), loaded)

\* OpenAIUploader.get_attachment_status_summary: {} for an empty store
GetAttachmentStatusSummary(md) ==
    LET loaded == UploaderLoadArticlesMetadata(md)
    IN  IF DOMAIN loaded = {} THEN [empty |-> TRUE]
        ELSE [empty |-> FALSE,
              summary |->
                SummaryLoop([counts |-> [attached |-> 0, pending |-> 0, failed |-> 0,
                                         total |-> Cardinality(DOMAIN loaded)],
                             attached |-> <<>>, pending |-> <<>>, failed |-> <<>>],
                            SortedSeq(DOMAIN loaded), loaded)]

\* a status that is none of "pending", "attached" and "failed", as an edit
\* of the document by hand can leave it
OtherStatus == "detached"

\* the stores, against a remote corpus in which edited_at and updated_at of
\* an article are the same
InitReport ==
    /\ Init
    /\ \A i \in Items : remote[i].updated_at = remote[i].edited_at

\* the document is edited by hand before the stages run: the attachment
\* status of a pending record becomes a status that is none of the three
EditStatus ==
    /\ pc = "idle"
    /\ \E i \in DOMAIN metadata :
        /\ metadata[i].vector_store_attachment_status = "pending"
        /\ metadata' = [metadata EXCEPT
                          ![i].vector_store_attachment_status = OtherStatus]
    /\ pc' = "edited"
    /\ calls' = <<>>
    /\ UNCHANGED <<files, remote, workers, document, index, nextId, now, run>>

\* the entries of `calls` for a summary: the three counts and the total (in
\* the field fid, under the name in res) and the articles of the three lists
ReportCalls(s) ==
    <<Call("count", None, s.counts.attached, "attached"),
      Call("count", None, s.counts.pending, "pending"),
      Call("count", None, s.counts.failed, "failed"),
      Call("count", None, s.counts.total, "total")>>
    \o [k \in 1..Len(s.attached) |-> Call("listed", s.attached[k], None, "attached")]
    \o [k \in 1..Len(s.pending) |-> Call("listed", s.pending[k], None, "pending")]
    \o [k \in 1..Len(s.failed) |-> Call("listed", s.failed[k], None, "failed")]

\* uploader.print_attachment_status_report(): nothing is written
StatusReport ==
    /\ calls' = IF GetAttachmentStatusSummary(metadata).empty THEN <<>>
                ELSE ReportCalls(GetAttachmentStatusSummary(metadata).summary)
    /\ pc' = "reported"
    /\ UNCHANGED <<metadata, files, remote, workers, document, index, nextId, now, run>>

ReportFetch == DoFetch(<<>>, FALSE) /\ pc' = "fetched" /\ UNCHANGED run

ReportUpload == DoUploadStage(<<>>) /\ pc' = "uploaded" /\ UNCHANGED run

ReportAttach == DoAttachStage(<<>>, FALSE) /\ pc' = "attached" /\ UNCHANGED run

NextReport ==
    \/ EditStatus
    \/ ReportFetch
    \/ ReportUpload
    \/ ReportAttach
    \/ StatusReport

SpecReport == InitReport /\ [][NextReport]_vars

\* the count the report gives under `name`
Count(log, name) ==
    (CHOOSE c \in Range(log) : c.op = "count" /\ c.res = name).fid

\* the lists of the report on which article i is
ListsOf(log, i) ==
    { c.res : c \in { d \in Range(log) : d.op = "listed" /\ d.id = i } }

\* C25: the attachment status report counts every record of the store under
\* exactly one of attached, pending and failed (a record with another status,
\* or with none, under pending), and the three counts add up to the number of
\* records.
C25_ReportPartitionsTheStore ==
    (pc = "reported" /\ metadata # <<>>) =>
        /\ Count(calls, "total") = Cardinality(DOMAIN metadata)
        /\ Count(calls, "attached") + Count(calls, "pending")
              + Count(calls, "failed") = Count(calls, "total")
        /\ \A i \in DOMAIN metadata :
            LET status == metadata[i].vector_store_attachment_status
            IN  ListsOf(calls, i) =
                    {IF status \in {"attached", "failed"} THEN status ELSE "pending"}
        /\ \A name \in {"attached", "pending", "failed"} :
            Count(calls, name) =
                Cardinality({ i \in DOMAIN metadata : name \in ListsOf(calls, i) })

\* a report on a store of two records, one attached and one with a status
\* that is none of the three, which the report counts under pending
C25_Witness ==
    /\ pc = "reported"
    /\ Cardinality(DOMAIN metadata) = 2
    /\ Count(calls, "attached") = 1
    /\ Count(calls, "pending") = 1
    /\ \E i \in DOMAIN metadata :
          metadata[i].vector_store_attachment_status = OtherStatus

----------------------------------------------------------------------------
(* The decision table of the upload stage, read for the attach stage *)

\* should_upload of upload_markdown_files_batch with the attachment status in
\* the place of the upload status, and "attached" in the place of "uploaded"
AttachTableActs(rec) ==
    LET status == IF rec.vector_store_attachment_status = "missing"
                  THEN "pending" ELSE rec.vector_store_attachment_status
    IN  \/ status = "pending"
        \/ status = "failed"
        \/ /\ status = "attached"
           /\ \/ /\ Truthy(rec.updated_at) /\ Truthy(rec.last_uploaded_updated_at)
                 /\ rec.updated_at # rec.last_uploaded_updated_at
              \/ Truthy(rec.updated_at) /\ ~Truthy(rec.last_uploaded_updated_at)

\* C26: for a record that is not skipped and is uploaded, the attach stage
\* makes an index call exactly when the decision table of the upload stage,
\* read with the attachment status, says so: pending, failed, attached with
\* an updated_at other than last_uploaded_updated_at, or attached with an
\* updated_at and no last_uploaded_updated_at.
C26_AttachUsesTheUploadTable ==
    [][AttachStep =>
        \A i \in DOMAIN metadata :
            (~metadata[i].skip_vector_store /\ IsUploaded(metadata[i])) =>
                (IndexCalls(calls', i) # <<>> <=> AttachTableActs(metadata[i]))]_vars

----------------------------------------------------------------------------
(* The detach call of the loop over files_needing_update *)

\* the attach stage goes on to attach the records on its list uploaded_files
\* other than i
OthersAttached(md, log, i) ==
    \A j \in DOMAIN md \ {i} :
        AttachClass(UploaderLoadArticlesMetadata(md)[j]) = "uploaded_files" =>
            CallsFor(log, "attach", j) # <<>>

\* C27: when the detach call for the old object of a record fails, the
\* attach stage still makes the upload call and then the attach call for that
\* article, and still attaches the other records of the batch.
C27_FailedDetachDoesNotStop ==
    [][\A d \in 1..Len(calls') :
          (calls'[d].op = "detach" /\ calls'[d].res = "err") =>
              /\ \E u \in (d + 1)..Len(calls') :
                    /\ calls'[u].op = "upload" /\ calls'[u].id = calls'[d].id
                    /\ \E a \in (u + 1)..Len(calls') :
                          calls'[a].op = "attach" /\ calls'[a].id = calls'[d].id
              /\ OthersAttached(metadata, calls', calls'[d].id)]_vars

----------------------------------------------------------------------------
(* A run of main() that is terminated in its attach stage, and the run after
   it *)

InitTerminated ==
    /\ Init
    /\ \A i \in Items : remote[i].updated_at = remote[i].edited_at

\* the process is terminated in the loop over uploaded_files, after the
\* attach calls of the first n records of the list and before the save:
\* the index keeps what was attached, the document is as the stage found it.
\* run.old: the list uploaded_files, with the object of each record
AttachTerminated ==
    /\ pc = "attach"
    /\ LET loaded == UploaderLoadArticlesMetadata(metadata)
           uploaded_files == Classified(loaded, "uploaded_files")
           files_needing_update == Classified(loaded, "files_needing_update")
       IN  /\ \E o \in IndexOutcomes(metadata, index, TRUE), n \in 1..Len(uploaded_files) :
                LET s1 == SupersedeAll(
                            [md |-> metadata, mem |-> loaded, idx |-> index,
                             next |-> nextId, log |-> calls],
                            files_needing_update, o.det, <<>>, o.att, now + 1)
                    s2 == AttachAll(s1, SubSeq(uploaded_files, 1, n), o.att, now + 1)
                IN  /\ index' = s2.idx
                    /\ calls' = s2.log
           /\ run' = [run EXCEPT !.old = [i \in Range(uploaded_files) |->
                                            loaded[i].openai_file_id]]
    /\ pc' = "terminated"
    /\ UNCHANGED <<metadata, files, remote, workers, document, nextId, now>>

\* the next run of main()
RestartFetch ==
    /\ pc = "terminated"
    /\ DoFetch(<<>>, TRUE)
    /\ pc' = "upload_again"
    /\ UNCHANGED run

RestartUpload ==
    /\ pc = "upload_again"
    /\ DoUploadStage(calls)
    /\ pc' = "attach_again"
    /\ UNCHANGED run

RestartAttach ==
    /\ pc = "attach_again"
    /\ DoAttachStage(calls, TRUE)
    /\ pc' = "done"
    /\ UNCHANGED run

NextTerminated ==
    \/ MainFetch
    \/ MainUpload
    \/ AttachTerminated
    \/ RestartFetch
    \/ RestartUpload
    \/ RestartAttach

SpecTerminated == InitTerminated /\ [][NextTerminated]_vars

\* C28: when a run is terminated in its attach stage after some attach calls
\* have returned and before the document is saved, the next run, if none of
\* its calls fails, ends with every record of the terminated stage's list
\* uploaded_files in the store, attached, and with its object in the index.
C28_TerminatedAttachIsResolved ==
    (pc = "done" /\ ~Faulty(calls)) =>
        \A i \in DOMAIN run.old :
            /\ i \in DOMAIN metadata
            /\ metadata[i].vector_store_attachment_status = "attached"
            /\ metadata[i].openai_file_id \in index

\* the terminated stage had two records to attach; the next run got the
\* answer "already attached" for the object of one of them, attached the
\* other, and both records are attached
C28_Witness ==
    /\ pc = "done" /\ ~Faulty(calls)
    /\ DOMAIN run.old = {1, 2}
    /\ \E i, j \in {1, 2} :
        /\ i # j
        /\ Call("attach", i, run.old[i], "dup") \in Range(calls)
        /\ Call("attach", j, run.old[j], "ok") \in Range(calls)
    /\ \A i \in {1, 2} : metadata[i].vector_store_attachment_status = "attached"

\* the writes of the document made by the stage invocation whose calls are log
StoreWrites(log) == SelectSeq(log, LAMBDA c : c.op = "save" /\ c.res = "ok")

\* C29: a fetch, an upload stage and an attach stage each write the document
\* at most once.
C29_OneStoreWritePerStage == Len(StoreWrites(calls)) <= 1

----------------------------------------------------------------------------
(* The fetch stage, one step per thread: the pool of category workers, the
   pool of section workers, and the loop of the main thread that saves *)

\* the dict `results` of the category pool: an entry per worker that
\* returned, in the order of return
CategoryResults(log) ==
    LET done == CallsOf(log, "category_done")
    IN  [k \in 1..Len(done) |->
            [key |-> done[k].id,
             value |-> GetSectionsFromCategory(done[k].id, done[k].res = "ok")]]

\* the dict `results` of the section pool
SectionResults(log) ==
    LET done == CallsOf(log, "section_done")
    IN  [k \in 1..Len(done) |->
            [key |-> done[k].id,
             value |-> GetArticlesFromSection(done[k].id, done[k].res = "ok")]]

\* all_sections, once every category worker has returned
AllSections(log) == CollectInInputOrder(CATEGORY_IDS, CategoryResults(log))

\* the body of the loop over as_completed(future_to_section), that keeps
\* the articles of a worker in `results` and writes nothing
\* st = [md, fs, log]
StoreSectionResultSaving(st, articles) == SaveArticles(st, articles)

StoreSectionResult(st, articles) == st

InitWorkers ==
    /\ Init
    /\ \A i \in Items : remote[i].updated_at = remote[i].edited_at

\* executor.submit(self.get_sections_from_category, c) for every category
SubmitCategories ==
    /\ pc = "idle"
    /\ workers' = Range(CATEGORY_IDS)
    /\ pc' = "categories"
    /\ calls' = <<>>
    /\ UNCHANGED <<metadata, files, remote, document, index, nextId, now, run>>

\* a category worker returns, with the sections or after a failed call
CategoryWorkerDone ==
    /\ pc = "categories"
    /\ \E c \in workers, ok \in BOOLEAN :
        /\ workers' = workers \ {c}
        /\ calls' = Append(calls, Call("category_done", c, None,
                                       IF ok THEN "ok" ELSE "err"))
    /\ UNCHANGED <<metadata, files, remote, document, index, nextId, now, pc, run>>

\* the with block of the category pool is left when no worker runs; the
\* sections are collected and a worker is submitted for each
SubmitSections ==
    /\ pc = "categories"
    /\ workers = {}
    /\ workers' = Range(AllSections(calls))
    /\ pc' = "sections"
    /\ UNCHANGED <<metadata, files, remote, document, index, nextId, now, calls, run>>

\* a section worker returns, with the articles or after a failed call
SectionWorkerDone ==
    /\ pc = "sections"
    /\ \E s \in workers, ok \in BOOLEAN :
        LET st == StoreSectionResult(
                    [md |-> metadata, fs |-> files,
                     log |-> Append(calls, Call("section_done", s, None,
                                                IF ok THEN "ok" ELSE "err"))],
                    GetArticlesFromSection(s, ok))
        IN  /\ workers' = workers \ {s}
            /\ metadata' = st.md
            /\ files' = st.fs
            /\ calls' = st.log
    /\ UNCHANGED <<remote, document, index, nextId, now, pc, run>>

\* the with block of the section pool is left when no worker runs; the
\* articles are saved in the order of the sections
SaveCollected ==
    /\ pc = "sections"
    /\ workers = {}
    /\ LET st == SaveArticles(
                    [md |-> metadata, fs |-> files, log |-> calls],
                    CollectInInputOrder(AllSections(calls), SectionResults(calls)))
       IN  /\ metadata' = st.md
           /\ files' = st.fs
           /\ calls' = st.log
    /\ pc' = "fetched"
    /\ UNCHANGED <<remote, workers, document, index, nextId, now, run>>

NextWorkers ==
    \/ SubmitCategories
    \/ CategoryWorkerDone
    \/ SubmitSections
    \/ SectionWorkerDone
    \/ SaveCollected

SpecWorkers == InitWorkers /\ [][NextWorkers]_vars

\* C30: in the fetch stage the store document and the artifacts change only
\* in a step that no enumeration worker runs in: every worker of the two
\* pools has returned before the first record or artifact is written
C30_NoWriteWhileWorkersRun ==
    [][(metadata' # metadata \/ files' # files)
        => /\ workers = {}
           /\ workers' = {}
           /\ pc = "sections"]_vars

\* a fetch saved an article after two section workers returned, the worker
\* of the second section first
C30_Witness ==
    /\ pc = "fetched"
    /\ workers = {}
    /\ CallsOf(calls, "write") # <<>>
    /\ LET done == CallsOf(calls, "section_done")
       IN  Len(done) = 2 /\ done[1].id = 2 /\ done[2].id = 1

----------------------------------------------------------------------------
(* The two thread pools of the scraper, call by call: a pool of max_workers
   threads, each of which takes the next submitted call from the queue of
   the pool when it has none in progress *)

OuterCap == 10      \* ThreadPoolExecutor(max_workers=10), the category pool
InnerCap == 15      \* ThreadPoolExecutor(max_workers=15), the section pool
MaxIds == 16        \* identifiers given to one enumeration

\* max_workers of the pool that the enumeration at position p creates
MaxWorkers(p) == IF p = "categories" THEN OuterCap ELSE InnerCap

\* the calls of the pool that a thread has taken and that have not returned;
\* queue: the submitted calls no thread has taken yet
InFlight(submitted, queue) == submitted \ Range(queue)

\* a pool that starts a thread for every call submitted to it
ThreadIsFreeUnbounded(in_flight, max_workers) == TRUE

\* a thread of the pool has no call in progress
ThreadIsFree(in_flight, max_workers) == Cardinality(in_flight) < max_workers

InitPool ==
    /\ InitCommon
    /\ metadata = << >>
    /\ remote = [i \in Items |-> [edited_at |-> 1, updated_at |-> 1]]

\* get_sections_from_categories_concurrent(category_ids) or
\* get_articles_from_sections_concurrent(sections): every identifier of the
\* list is submitted, in the order of the list. run.old: the queue of the pool
PoolSubmit ==
    /\ pc = "idle"
    /\ \E p \in {"categories", "sections"}, n \in 0..MaxIds :
        /\ pc' = p
        /\ workers' = 1..n
        /\ run' = [run EXCEPT !.old = [k \in 1..n |-> k]]
    /\ UNCHANGED <<metadata, files, remote, document, index, nextId, now, calls>>

\* a thread takes the call at the head of the queue and issues the request
PoolWorkerStarts ==
    /\ pc \in {"categories", "sections"}
    /\ run.old # <<>>
    /\ ThreadIsFree(InFlight(workers, run.old), MaxWorkers(pc))
    /\ run' = [run EXCEPT !.old = Tail(@)]
    /\ UNCHANGED <<metadata, files, remote, document, index, nextId, now, calls,
                   pc, workers>>

\* a call in progress returns
PoolWorkerReturns ==
    /\ pc \in {"categories", "sections"}
    /\ \E w \in InFlight(workers, run.old) : workers' = workers \ {w}
    /\ UNCHANGED <<metadata, files, remote, document, index, nextId, now, calls,
                   pc, run>>

\* the with block of the pool is left
PoolExit ==
    /\ pc \in {"categories", "sections"}
    /\ workers = {}
    /\ pc' = "idle"
    /\ UNCHANGED <<metadata, files, remote, document, index, nextId, now, calls,
                   workers, run>>

NextPool == PoolSubmit \/ PoolWorkerStarts \/ PoolWorkerReturns \/ PoolExit

SpecPool == InitPool /\ [][NextPool]_vars

\* C31: at every moment at most OuterCap category listing calls and at most
\* InnerCap section listing calls are in flight, however many identifiers
\* the enumeration was given, and the outer cap is the smaller one
C31_InFlightCallsAreCapped ==
    /\ pc = "categories" => Cardinality(InFlight(workers, run.old)) <= OuterCap
    /\ pc = "sections" => Cardinality(InFlight(workers, run.old)) <= InnerCap
    /\ OuterCap < InnerCap

\* more sections than the pool has threads were given: every thread has a
\* call in flight and a call waits in the queue
C31_Witness ==
    /\ pc = "sections"
    /\ Cardinality(InFlight(workers, run.old)) = InnerCap
    /\ run.old # <<>>

----------------------------------------------------------------------------
(* What the attach stage leaves in the store and in the index *)

\* C32: when an invocation of the attach stage ends, the object of every
\* record stored as attached is attached in the index; a supersede whose
\* detach succeeded and whose upload or attach failed does not leave the
\* record stored as attached.
C32_StoredAttachedIsInIndex ==
    [][AttachStep =>
        \A i \in DOMAIN metadata' :
            (IsAttached(metadata'[i]) /\ Truthy(metadata'[i].openai_file_id)) =>
                metadata'[i].openai_file_id \in index']_vars

\* the record is on the list files_needing_update of an attach stage that
\* starts on the document md
NeedsSupersede(md, i) ==
    AttachClass(UploaderLoadArticlesMetadata(md)[i]) = "files_needing_update"

\* C33: after an invocation of the attach stage, the record of every article
\* it superseded holds what the upload made inside the supersede wrote: the
\* status "uploaded", a new object id and the uploaded version; the save at
\* the end of the stage keeps them.
C33_SupersedeKeepsUploadState ==
    [][AttachStep =>
        \A i \in DOMAIN metadata :
            NeedsSupersede(metadata, i) =>
                /\ metadata'[i].openai_upload_status = "uploaded"
                /\ metadata'[i].openai_file_id # metadata[i].openai_file_id
                /\ metadata'[i].last_uploaded_updated_at = metadata[i].updated_at]_vars

----------------------------------------------------------------------------
(* The fields of a record that each stage leaves alone *)

\* C34: no stage changes skip_vector_store: a record that has it set keeps
\* it through every fetch, a fetch of changed content too, every upload and
\* every attach.
C34_SkipIsNeverCleared ==
    [][\A i \in DOMAIN metadata :
          metadata[i].skip_vector_store =>
              /\ i \in DOMAIN metadata'
              /\ metadata'[i].skip_vector_store]_vars

----------------------------------------------------------------------------
(* The four entry points of the upload, asked without force for one article *)

Answer(b) == IF b THEN "yes" ELSE "no"

\* what each entry point decides for article i on the directory (md, fs):
\* whether it goes on to the upload call
Decisions(md, fs, i) ==
    << Call("upload_markdown_files_batch", i, None,
            Answer(i \in Range(FilesToUpload(md, fs)))),
       Call("get_articles_for_upload", i, None,
            Answer(i \in Range(GetArticlesForUpload(md, fs, FALSE)))),
       Call("upload_articles_by_ids_batch", i, None,
            Answer(i \in Range(FilePathsByIds(md, fs, <<i>>, FALSE)))),
       Call("upload_article_by_id", i, None,
            Answer(ScraperUploadArticleById([md |-> md, fs |-> fs, log |-> <<>>],
                                            i, FALSE).log # <<>>)) >>

InitDecisions == Init

DecisionsFetch ==
    /\ DoFetch(<<>>, FALSE)
    /\ pc' = "fetched"
    /\ UNCHANGED run

DecisionsUploadStage ==
    /\ DoUploadStage(<<>>)
    /\ pc' = "uploaded"
    /\ UNCHANGED run

\* the four entry points are asked about one stored article
Decide ==
    /\ \E i \in DOMAIN metadata : calls' = Decisions(metadata, files, i)
    /\ pc' = "decided"
    /\ UNCHANGED <<metadata, files, remote, workers, document, index, nextId,
                   now, run>>

NextDecisions == DecisionsFetch \/ DecisionsUploadStage \/ Decide

SpecDecisions == InitDecisions /\ [][NextDecisions]_vars

\* C35: without force, upload_markdown_files_batch, get_articles_for_upload,
\* upload_articles_by_ids_batch and upload_article_by_id make the same
\* decision to upload for the same record, whatever its upload status, its
\* updated_at, its last_uploaded_updated_at and its skip_vector_store.
C35_EntryPointsAgree ==
    pc = "decided" => \A j, k \in 1..Len(calls) : calls[j].res = calls[k].res

----------------------------------------------------------------------------
(* The artifacts the upload stage uploads *)

\* C36: the upload stage makes an upload call only for an artifact whose
\* article has a record in the document; an artifact without a record is
\* never uploaded.
C36_UploadOnlyForStoredRecords ==
    pc = "attach" =>
        \A k \in 1..Len(calls) :
            calls[k].op = "upload" =>
                /\ document = "ok"
                /\ calls[k].id \in DOMAIN metadata

----------------------------------------------------------------------------
(* The stages invoked in any order on a directory that starts empty, while
   articles of the remote corpus are edited *)

InitEmpty ==
    /\ InitCommon
    /\ metadata = << >>
    /\ remote = [i \in Items |-> [edited_at |-> 1, updated_at |-> 1]]

\* an article of the help centre is edited: its two markers move forward
\* (an updated_at that moves alone is never stored: the fetch compares
\* edited_at)
RemoteEdit ==
    /\ \E i \in Items, s \in Stamps :
        /\ s > remote[i].edited_at
        /\ remote' = [remote EXCEPT ![i] = [edited_at |-> s, updated_at |-> s]]
    /\ UNCHANGED <<metadata, files, workers, document, index, nextId, now, pc,
                   calls, run>>

NextEmpty ==
    \/ Fetch
    \/ UploadStage
    \/ UploadByIds
    \/ AttachStage
    \/ RemoteEdit

SpecEmpty == InitEmpty /\ [][NextEmpty]_vars

\* C38: on a directory that started empty, a record with
\* openai_upload_status "uploaded" has an object id, and a record with
\* vector_store_attachment_status "attached" has a vector_store_id and a
\* vector_store_attached_at, in every reachable state.
C38_UploadedAndAttachedAreComplete ==
    \A i \in DOMAIN metadata :
        /\ metadata[i].openai_upload_status = "uploaded" =>
              Truthy(metadata[i].openai_file_id)
        /\ metadata[i].vector_store_attachment_status = "attached" =>
              /\ Truthy(metadata[i].vector_store_id)
              /\ Truthy(metadata[i].vector_store_attached_at)

\* a record of the directory that started empty is uploaded and attached
\* after an attach call of the step before
C38_Witness ==
    \E i \in DOMAIN metadata :
        /\ metadata[i].openai_upload_status = "uploaded"
        /\ metadata[i].vector_store_attachment_status = "attached"
        /\ CallsFor(calls, "attach", i) # <<>>

----------------------------------------------------------------------------
(* The fields of a record that an upload and an attach change *)

\* the record without the fields an upload attempt writes
WithoutUploadFields(rec) ==
    [rec EXCEPT !.openai_upload_status = "pending", !.openai_file_id = None,
                !.last_uploaded_updated_at = None, !.upload_error = None]

\* the record without the fields an attach writes
WithoutAttachFields(rec) ==
    [rec EXCEPT !.vector_store_attachment_status = "pending",
                !.vector_store_attached_at = None, !.vector_store_id = None]

\* C37 (as stated): a step changes, of the stored record of an article it
\* made an upload call for, only openai_upload_status, openai_file_id,
\* upload_error and last_uploaded_updated_at; of the stored record of an
\* article it made an attach call for, only vector_store_attachment_status,
\* vector_store_attached_at and vector_store_id; and nothing of a stored
\* record it made no artifact write, no upload call and no attach call for.
C37_StagesChangeOnlyTheirFields ==
    [][\A i \in DOMAIN metadata :
        LET old == metadata[i]
            new == metadata'[i]
        IN  /\ i \in DOMAIN metadata'
            /\ CallsFor(calls', "upload", i) # <<>> =>
                  WithoutUploadFields(new) = WithoutUploadFields(old)
            /\ CallsFor(calls', "attach", i) # <<>> =>
                  WithoutAttachFields(new) = WithoutAttachFields(old)
            /\ (/\ CallsFor(calls', "write", i) = <<>>
                /\ CallsFor(calls', "upload", i) = <<>>
                /\ CallsFor(calls', "attach", i) = <<>>) => new = old]_vars

\* C37 (amended): the same of the records as the load of the uploader
\* returns them, that is with "pending" and None for the three attach keys
\* that a stored record does not have.
C37_StagesChangeOnlyTheirFieldsAsLoaded ==
    [][\A i \in DOMAIN metadata :
        LET old == UploaderLoadArticlesMetadata(metadata)[i]
            new == UploaderLoadArticlesMetadata(metadata')[i]
        IN  /\ i \in DOMAIN metadata'
            /\ CallsFor(calls', "upload", i) # <<>> =>
                  WithoutUploadFields(new) = WithoutUploadFields(old)
            /\ CallsFor(calls', "attach", i) # <<>> =>
                  WithoutAttachFields(new) = WithoutAttachFields(old)
            /\ (/\ CallsFor(calls', "write", i) = <<>>
                /\ CallsFor(calls', "upload", i) = <<>>
                /\ CallsFor(calls', "attach", i) = <<>>) => new = old]_vars

\* an upload by ids has uploaded article 1 anew, which was attached and
\* stays so, while article 2 has a record that the step made no call for
C37_Witness ==
    /\ UploadedOk(calls, 1)
    /\ metadata[1].vector_store_attachment_status = "attached"
    /\ metadata[1].openai_file_id > Cardinality(Items)
    /\ 2 \in DOMAIN metadata
    /\ \A k \in 1..Len(calls) : calls[k].id = 1

----------------------------------------------------------------------------
(* The summary that the attach stage returns *)

Statuses == {"completed", "in_progress", "none"}

\* the counters of the two loops of the attach stage, all 0 before them
NoCounts ==
    [files_updated |-> 0, files_update_failed |-> 0,
     added |-> 0, updated |-> 0, skipped |-> 0, failed |-> 0]

\* loops that count nothing for an attach call answered "already attached"
CountCallLeavingOutDuplicates(acc, c, superseded, status) ==
    IF c.op = "files_update_failed"
    THEN [acc EXCEPT !.files_update_failed = @ + 1]
    ELSE IF c.op # "attach" THEN acc
    ELSE IF c.id \in superseded
    THEN IF c.res = "ok" THEN [acc EXCEPT !.files_updated = @ + 1] ELSE acc
    ELSE IF c.res = "ok"
    THEN IF status[c.id] = "in_progress" THEN [acc EXCEPT !.updated = @ + 1]
         ELSE [acc EXCEPT !.added = @ + 1]
    ELSE IF c.res = "dup" THEN acc
    ELSE [acc EXCEPT !.failed = @ + 1]

\* the counter that the branch taken for the call c increments; superseded:
\* the articles of files_needing_update; status[i]: response.status of the
\* attach call of the second loop for article i, when it was answered
CountCall(acc, c, superseded, status) ==
    IF c.op = "files_update_failed"
    THEN [acc EXCEPT !.files_update_failed = @ + 1]
    ELSE IF c.op # "attach" THEN acc
    ELSE IF c.id \in superseded
    THEN IF c.res = "ok" THEN [acc EXCEPT !.files_updated = @ + 1] ELSE acc
    ELSE IF c.res = "ok"
    THEN IF status[c.id] = "in_progress" THEN [acc EXCEPT !.updated = @ + 1]
         ELSE [acc EXCEPT !.added = @ + 1]
    ELSE IF c.res = "dup" THEN [acc EXCEPT !.skipped = @ + 1]
    ELSE [acc EXCEPT !.failed = @ + 1]

RECURSIVE CountCalls(_, _, _, _)
CountCalls(acc, log, superseded, status) ==
    IF log = <<>> THEN acc
    ELSE CountCalls(CountCall(acc, Head(log), superseded, status), Tail(log),
                    superseded, status)

\* the dict that attach_uploaded_files_to_vector_store returns, as calls
AttachSummary(loaded, log, status) ==
    LET uploaded_files == Classified(loaded, "uploaded_files")
        files_needing_update == Classified(loaded, "files_needing_update")
        already_attached_count == Len(Classified(loaded, "already_attached"))
        counts == CountCalls(NoCounts, log, Range(files_needing_update), status)
    IN  <<Call("summary", None,
               Len(uploaded_files) + Len(files_needing_update)
                    + already_attached_count, "total"),
          Call("summary", None,
               Len(uploaded_files) + Len(files_needing_update), "processed"),
          Call("summary", None, already_attached_count, "already_attached"),
          Call("summary", None, counts.files_updated, "files_updated"),
          Call("summary", None, counts.files_update_failed, "files_update_failed"),
          Call("summary", None, counts.added, "added"),
          Call("summary", None, counts.updated, "updated"),
          Call("summary", None, counts.skipped, "skipped"),
          Call("summary", None, counts.failed, "failed")>>

\* the stage gets as far as its return statement with the dict
ReturnsSummary(loaded, store) ==
    /\ store # None
    /\ DOMAIN loaded # {}
    /\ \/ Classified(loaded, "uploaded_files") # <<>>
       \/ Classified(loaded, "files_needing_update") # <<>>

InitSummary ==
    /\ Init
    /\ remote = [i \in Items |-> [edited_at |-> 1, updated_at |-> 1]]

SummaryFetch == DoFetch(<<>>, FALSE) /\ pc' = "fetched" /\ UNCHANGED run

\* uploader.create_and_check_vector_store();
\* uploader.attach_uploaded_files_to_vector_store(), with what it returns
SummaryAttach ==
    /\ \E storeOk \in BOOLEAN :
       \E o \in IndexOutcomes(metadata, index, storeOk) :
       \E status \in [{ i \in DOMAIN o.att : o.att[i] = "ok" } -> Statuses] :
        LET loaded == UploaderLoadArticlesMetadata(metadata)
            st == AttachUploadedFilesToVectorStore(
                    [md |-> metadata, mem |-> metadata, idx |-> index,
                     next |-> nextId, log |-> <<>>],
                    CreateAndCheckVectorStore(storeOk), o.det, <<>>, o.att, now + 1)
        IN  /\ Stamped(st.md, now + 1) => now < MaxClock
            /\ metadata' = st.md
            /\ index' = st.idx
            /\ nextId' = st.next
            /\ calls' = IF ReturnsSummary(loaded, CreateAndCheckVectorStore(storeOk))
                        THEN st.log \o AttachSummary(loaded, st.log, status)
                        ELSE st.log
            /\ now' = IF Stamped(st.md, now + 1) THEN now + 1 ELSE now
    /\ pc' = "attached"
    /\ UNCHANGED <<files, remote, workers, document, run>>

\* uploader.upload_articles_by_ids_batch(article_ids)
SummaryUploadByIds ==
    /\ \E S \in SUBSET Items \ {{}} :
        DoUpload(<<>>, FilePathsByIds(metadata, files, SortedSeq(S), FALSE))
    /\ pc' = "uploaded_ids"
    /\ UNCHANGED run

NextSummary ==
    \/ SummaryFetch
    \/ SummaryUploadByIds
    \/ AttachSingle
    \/ SummaryAttach

SpecSummary == InitSummary /\ [][NextSummary]_vars

\* what the summary gives under `name`
Summary(log, name) ==
    (CHOOSE c \in Range(log) : c.op = "summary" /\ c.res = name).fid

\* C39: in the summary the attach stage returns, added + updated + skipped +
\* failed is the number of articles on the list uploaded_files,
\* files_updated + files_update_failed the number on the list
\* files_needing_update, processed the sum of the two, and total is
\* processed + already_attached.
C39_SummaryConservesCounts ==
    [][CallsOf(calls', "summary") # <<>> =>
        LET loaded == UploaderLoadArticlesMetadata(metadata)
            plain == Len(Classified(loaded, "uploaded_files"))
            supersede == Len(Classified(loaded, "files_needing_update"))
        IN  /\ Summary(calls', "added") + Summary(calls', "updated")
                 + Summary(calls', "skipped") + Summary(calls', "failed") = plain
            /\ Summary(calls', "files_updated")
                 + Summary(calls', "files_update_failed") = supersede
            /\ Summary(calls', "processed") = plain + supersede
            /\ Summary(calls', "total") =
                 Summary(calls', "processed") + Summary(calls', "already_attached")]_vars

\* the attach stage returned a summary after it had one article on each of
\* its two lists: one update that failed and one object attached
C39_Witness ==
    /\ CallsOf(calls, "summary") # <<>>
    /\ Summary(calls, "files_update_failed") = 1
    /\ Summary(calls, "added") + Summary(calls, "updated") = 1
    /\ Summary(calls, "processed") = 2

====
